---- MODULE Spec2Model ----
(***************************************************************************)
(* Model of the mayajiva navigation core: Landscape, CompassSensor,        *)
(* RingAttractor, CPU4 and Bug (src/modules/mayajiva/src/core).            *)
(*                                                                         *)
(* Doubles are fixed-point integers with three decimals (1.0 is 1000);     *)
(* angles are in milliradians.  The transcendental functions are integer   *)
(* approximations of the library functions the code calls.                 *)
(***************************************************************************)
EXTENDS Integers, Sequences, FiniteSets, TLC

(***************************************************************************)
(* Fixed-point arithmetic                                                  *)
(***************************************************************************)
SCALE == 1000
PI == 3142
TWO_PI == 2 * PI
HALF_PI == PI \div 2

\* The quotient 0.0/0.0 of IEEE doubles.
NaN == 2000000000

IsNaN(a) == a = NaN

Abs(a) == IF a < 0 THEN -a ELSE a

Max(a, b) == IF a >= b THEN a ELSE b

Min(a, b) == IF a <= b THEN a ELSE b

\* Integer quotient rounded toward zero (b # 0).
TDiv(a, b) == IF (a >= 0) = (b > 0) THEN Abs(a) \div Abs(b) ELSE -(Abs(a) \div Abs(b))

FAdd(a, b) == IF IsNaN(a) \/ IsNaN(b) THEN NaN ELSE a + b

FMul(a, b) == IF IsNaN(a) \/ IsNaN(b) THEN NaN ELSE TDiv(a * b, SCALE)

\* a / b on doubles; the model only ever meets 0/0 as a zero divisor.
FDiv(a, b) ==
    IF IsNaN(a) \/ IsNaN(b) THEN NaN
    ELSE IF b = 0 THEN NaN
    ELSE TDiv(a * SCALE, b)

\* std::fmod: the result has the sign of the dividend.
FMod(a, b) == a - b * TDiv(a, b)

Clamp(v, lo, hi) == IF v < lo THEN lo ELSE IF v > hi THEN hi ELSE v

\* A local variable: v is evaluated once and F is applied to its value.
Bind(v, F(_)) == CHOOSE r \in {F(y) : y \in {v}} : TRUE

RECURSIVE ISqrtIn(_, _, _)
ISqrtIn(n, lo, hi) ==
    IF lo >= hi THEN lo
    ELSE Bind((lo + hi + 1) \div 2, LAMBDA mid :
             IF mid * mid <= n THEN ISqrtIn(n, mid, hi) ELSE ISqrtIn(n, lo, mid - 1))

\* std::sqrt
FSqrt(a) == IF IsNaN(a) THEN NaN ELSE Bind(a * SCALE, LAMBDA n : ISqrtIn(n, 0, 46340))

\* sqrt(a*a + b*b) and std::abs of the complex number (a, b).
Hypot(a, b) ==
    IF IsNaN(a) \/ IsNaN(b) THEN NaN
    ELSE Bind(a * a + b * b, LAMBDA n : ISqrtIn(n, 0, 46340))

\* sin on [0, PI] by Bhaskara's rational approximation.
SinHalf(x) ==
    LET p == x * (PI - x)
    IN  ((p \div 2) * SCALE) \div ((5 * PI * PI - 4 * p) \div 32)

\* std::sin
Sin(x) ==
    Bind(x % TWO_PI, LAMBDA xr :
        IF xr <= PI THEN SinHalf(xr) ELSE -SinHalf(xr - PI))

\* std::cos
Cos(x) == Sin(x + HALF_PI)

\* atan on [0, 1].
AtanUnit(z) == TDiv(PI * z, 4 * SCALE) + FMul(FMul(z, SCALE - z), 245 + FMul(66, z))

\* std::atan2 (std::arg of a complex number), in [-PI, PI].
Atan2(y, x) ==
    IF IsNaN(y) \/ IsNaN(x) THEN NaN
    ELSE IF x = 0 /\ y = 0 THEN 0
    ELSE Bind(<<Abs(x), Abs(y)>>, LAMBDA m :
         Bind(IF m[1] >= m[2] THEN (m[2] * SCALE) \div m[1] ELSE (m[1] * SCALE) \div m[2],
              LAMBDA z :
                 LET a == IF m[1] >= m[2] THEN AtanUnit(z) ELSE HALF_PI - AtanUnit(z)
                     b == IF x < 0 THEN PI - a ELSE a
                 IN  IF y < 0 THEN -b ELSE b))

LN2 == 693

RECURSIVE Halve(_, _)
Halve(v, k) == IF k = 0 THEN v ELSE Halve(v \div 2, k - 1)

\* std::exp for arguments <= 0.
FExp(x) ==
    Bind(x, LAMBDA v :
    Bind(-((-v) % LN2), LAMBDA r :
    Bind(FMul(r, r), LAMBDA r2 :
    Bind(FMul(r2, r), LAMBDA r3 :
    Bind(FMul(r3, r), LAMBDA r4 :
        Halve(SCALE + r + r2 \div 2 + TDiv(r3, 6) + r4 \div 24, (-v) \div LN2))))))

(***************************************************************************)
(* Pseudorandom stream (std::mt19937 and the distributions drawn from it)  *)
(***************************************************************************)
RngMod == 65537

\* One engine advance.
RngNext(s) == (75 * s + 74) % RngMod

\* A draw of N(0,1), in fixed point.
NormalValue(s) == ((s % 7) - 3) * 500

\* A stream is the engine state and the log of the draws made from it.
NewRng(seed) == [state |-> seed % RngMod, log |-> << >>]

Draw(rng, tag) == [state |-> RngNext(rng.state), log |-> Append(rng.log, tag)]

(***************************************************************************)
(* Landscape (landscape.hpp)                                               *)
(***************************************************************************)
Vec3(x, y, z) == [x |-> x, y |-> y, z |-> z]

ZeroVec == Vec3(0, 0, 0)

GaussianAnomaly(px, py, strength, radius) ==
    [type |-> "Gaussian", px |-> px, py |-> py, strength |-> strength, radius |-> radius]

DipoleAnomaly(px, py, strength, depth) ==
    [type |-> "Dipole", px |-> px, py |-> py, strength |-> strength, depth |-> depth]

FaultAnomaly(px, py, azimuth, contrast, width) ==
    [type |-> "Fault", px |-> px, py |-> py, azimuth |-> azimuth,
     contrast |-> contrast, width |-> width]

GradientAnomaly(magnitude, direction, ref_x, ref_y) ==
    [type |-> "Gradient", magnitude |-> magnitude, direction |-> direction,
     ref_x |-> ref_x, ref_y |-> ref_y]

\* Landscape::Landscape
NewLandscape(width, height, B0, declination, inclination) ==
    [width |-> width, height |-> height, B0 |-> B0,
     declination |-> declination, inclination |-> inclination,
     B_horizontal |-> FMul(B0, Cos(inclination)),
     B_vertical |-> FMul(B0, Sin(inclination)),
     anomalies |-> << >>]

\* Landscape::add_anomaly
add_anomaly(ls, a) == [ls EXCEPT !.anomalies = Append(@, a)]

\* Landscape::clear_anomalies
clear_anomalies(ls) == [ls EXCEPT !.anomalies = << >>]

\* The 1e-6 of the Gaussian's centre test, rounded up to the fixed-point grid.
EpsR == 1

\* A Gaussian cut off at four radii instead of three.
PerturbationGaussian_WideCutoff(x, y, a) ==
    LET dx == x - a.px
        dy == y - a.py
    IN  Bind(Hypot(dx, dy), LAMBDA r :
            IF r >= 4 * a.radius THEN [v |-> ZeroVec, dz |-> FALSE]
            ELSE IF r < EpsR THEN [v |-> ZeroVec, dz |-> a.radius = 0]
            ELSE Bind(FDiv(r, a.radius), LAMBDA q :
                 Bind(FMul(a.strength, FExp(-(FMul(q, q) \div 2))), LAMBDA envelope :
                     [v  |-> Vec3(FDiv(FMul(envelope, dx), r), FDiv(FMul(envelope, dy), r), 0),
                      dz |-> a.radius = 0 \/ r = 0])))

\* Landscape::perturbation(GaussianAnomaly); dz: a division by zero was performed.
PerturbationGaussian(x, y, a) ==
    LET dx == x - a.px
        dy == y - a.py
    IN  Bind(Hypot(dx, dy), LAMBDA r :
            IF r >= 3 * a.radius THEN [v |-> ZeroVec, dz |-> FALSE]
            ELSE IF r < EpsR THEN [v |-> ZeroVec, dz |-> a.radius = 0]
            ELSE Bind(FDiv(r, a.radius), LAMBDA q :
                 Bind(FMul(a.strength, FExp(-(FMul(q, q) \div 2))), LAMBDA envelope :
                     [v  |-> Vec3(FDiv(FMul(envelope, dx), r), FDiv(FMul(envelope, dy), r), 0),
                      dz |-> a.radius = 0 \/ r = 0])))

\* std::pow(5.0, 2.5)
Pow5_25 == 55902

\* Landscape::perturbation(DipoleAnomaly)
PerturbationDipole(x, y, a) ==
    LET dx == x - a.px
        dy == y - a.py
    IN  Bind(FMul(dx, dx) + FMul(dy, dy), LAMBDA rho2 :
        Bind(rho2 + FMul(a.depth, a.depth), LAMBDA R2 :
        Bind(FMul(FMul(R2, R2), FSqrt(R2)), LAMBDA R5 :
        Bind(FDiv(FMul(FMul(a.strength, Pow5_25), FMul(FMul(a.depth, a.depth), a.depth)),
                  48 * SCALE), LAMBDA alpha :
            LET dBx == FDiv(FMul(FMul(FMul(alpha, 3 * SCALE), a.depth), dx), R5)
                dBy == FDiv(FMul(FMul(FMul(alpha, 3 * SCALE), a.depth), dy), R5)
                dBz == FDiv(FMul(alpha, 2 * FMul(a.depth, a.depth) - rho2), R5)
            IN  [v |-> Vec3(dBx, dBy, dBz), dz |-> R5 = 0]))))

\* std::tanh
Tanh(x) ==
    Bind(x, LAMBDA v :
    Bind(FExp(-2 * Abs(v)), LAMBDA e :
        LET t == FDiv(SCALE - e, SCALE + e)
        IN  IF v < 0 THEN -t ELSE t))

\* Landscape::perturbation(FaultAnomaly)
PerturbationFault(x, y, a) ==
    Bind(FMul(x - a.px, Sin(a.azimuth)) - FMul(y - a.py, Cos(a.azimuth)), LAMBDA d_perp :
    Bind(IF a.width = 0
         THEN (IF d_perp = 0 THEN NaN ELSE IF (d_perp > 0) THEN SCALE ELSE -SCALE)
         ELSE Tanh(FDiv(d_perp, a.width)), LAMBDA profile :
        LET dBx == FMul(FMul(a.contrast \div 2, profile), Sin(a.azimuth))
            dBy == FMul(FMul(-(a.contrast \div 2), profile), Cos(a.azimuth))
        IN  [v |-> Vec3(dBx, dBy, 0), dz |-> a.width = 0]))

\* Landscape::perturbation(GradientAnomaly)
PerturbationGradient(x, y, a) ==
    Bind(FMul(x - a.ref_x, Cos(a.direction)) + FMul(y - a.ref_y, Sin(a.direction)), LAMBDA s :
        LET dBx == FMul(FMul(a.magnitude, s), Cos(a.direction))
            dBy == FMul(FMul(a.magnitude, s), Sin(a.direction))
        IN  [v |-> Vec3(dBx, dBy, 0), dz |-> FALSE])

\* Landscape::anomaly_perturbation (std::visit over the variant)
anomaly_perturbation(x, y, anom) ==
    CASE anom.type = "Gaussian" -> PerturbationGaussian(x, y, anom)
      [] anom.type = "Dipole"   -> PerturbationDipole(x, y, anom)
      [] anom.type = "Fault"    -> PerturbationFault(x, y, anom)
      [] anom.type = "Gradient" -> PerturbationGradient(x, y, anom)

RECURSIVE SumAnomalies(_, _, _, _, _)
SumAnomalies(ls, x, y, i, B) ==
    IF i > Len(ls.anomalies) THEN B
    ELSE Bind(anomaly_perturbation(x, y, ls.anomalies[i]).v, LAMBDA d :
         Bind(Vec3(FAdd(B.x, d.x), FAdd(B.y, d.y), FAdd(B.z, d.z)), LAMBDA B1 :
             SumAnomalies(ls, x, y, i + 1, B1)))

\* Landscape::magnetic_direction
magnetic_direction(ls, x, y) ==
    Bind(Vec3(FMul(ls.B_horizontal, Cos(ls.declination)),
              FMul(ls.B_horizontal, Sin(ls.declination)),
              ls.B_vertical), LAMBDA B0v :
    Bind(SumAnomalies(ls, x, y, 1, B0v), LAMBDA B :
    Bind(Hypot(B.x, B.y), LAMBDA B_h :
        [direction |-> Atan2(B.y, B.x), intensity |-> B_h, inclination |-> Atan2(B.z, B_h)])))

\* A bounds test on the open rectangle.
in_bounds_Open(ls, x, y) == x > 0 /\ x < ls.width /\ y > 0 /\ y < ls.height

\* Landscape::in_bounds
in_bounds(ls, x, y) == x >= 0 /\ x <= ls.width /\ y >= 0 /\ y <= ls.height

(***************************************************************************)
(* CompassSensor (compass.hpp)                                             *)
(***************************************************************************)
\* singlet_yield
singlet_yield(alpha, contrast, mean_yield) ==
    LET delta == FMul(contrast, mean_yield)
    IN  mean_yield + FMul(FMul(SCALE \div 2, delta), SCALE + Cos(2 * alpha))

\* |phi_[k] - centres[c]| wrapped to [-pi, pi], on the exact grid of
\* 2 * n_cry * nch ticks per turn (pi is n_cry * nch ticks).
CircDist(k, n_cry, c, nch) ==
    LET pi    == n_cry * nch
        diff0 == 2 * k * nch - 2 * c * n_cry
        diff1 == FMod(diff0 + pi, 2 * pi)
        diff2 == IF diff1 < 0 THEN diff1 + 2 * pi ELSE diff1
    IN  Abs(diff2 - pi)

\* The molecules that are exactly equidistant from their two nearest channel centres.
TiedMolecules(n_cry, nch) ==
    { k \in 0..(n_cry - 1) :
        \E c1 \in 0..(nch - 1), c2 \in 0..(nch - 1) :
           /\ c1 < c2
           /\ CircDist(k, n_cry, c1, nch) = CircDist(k, n_cry, c2, nch)
           /\ \A c \in 0..(nch - 1) : CircDist(k, n_cry, c1, nch) <= CircDist(k, n_cry, c, nch) }

\* The inner loop of init_molecules: the nearest channel of molecule k.
\* The distances are doubles computed from rounded multiples of pi; for two
\* centres at exactly the same distance the rounding decides whether the later
\* one compares strictly smaller: it does for the molecules in late.
RECURSIVE BestChannel(_, _, _, _, _, _, _)
BestChannel(k, n_cry, nch, c, best_dist, best_c, late) ==
    IF c >= nch THEN best_c
    ELSE Bind(CircDist(k, n_cry, c, nch), LAMBDA d :
         Bind(c + 1, LAMBDA c1 :
             IF best_dist < 0 \/ d < best_dist \/ (d = best_dist /\ k \in late)
             THEN BestChannel(k, n_cry, nch, c1, d, c1 - 1, late)
             ELSE BestChannel(k, n_cry, nch, c1, best_dist, best_c, late)))

\* The assignment loop of init_molecules: assignments_[k] = best_c; channel_counts_[best_c]++.
RECURSIVE AssignLoop(_, _, _, _, _, _)
AssignLoop(k, n_cry, nch, assignments, counts, late) ==
    IF k >= n_cry THEN [assignments |-> assignments, channel_counts |-> counts]
    ELSE Bind(BestChannel(k, n_cry, nch, 0, -1, 0, late), LAMBDA best_c :
         Bind([k |-> k + 1,
               assignments |-> [assignments EXCEPT ![k] = best_c],
               counts |-> [counts EXCEPT ![best_c] = @ + 1]], LAMBDA s :
             AssignLoop(s.k, n_cry, nch, s.assignments, s.counts, late)))

\* init_molecules without channel_counts_.fill(0): the counts start from what the array held.
init_molecules_NoFill(n_cry, nch, late) ==
    Bind(AssignLoop(0, n_cry, nch, [k \in 0..(n_cry - 1) |-> 0], [c \in 0..(nch - 1) |-> 1],
                    late),
         LAMBDA a :
            [phi            |-> [k \in 0..(n_cry - 1) |-> (TWO_PI * k) \div n_cry],
             assignments    |-> a.assignments,
             channel_counts |-> a.channel_counts])

\* CompassSensor::init_molecules (best_dist < 0 stands for the initial 1e30)
init_molecules(n_cry, nch, late) ==
    Bind(AssignLoop(0, n_cry, nch, [k \in 0..(n_cry - 1) |-> 0], [c \in 0..(nch - 1) |-> 0],
                    late),
         LAMBDA a :
            [phi            |-> [k \in 0..(n_cry - 1) |-> (TWO_PI * k) \div n_cry],
             assignments    |-> a.assignments,
             channel_counts |-> a.channel_counts])

\* CompassSensor::CompassSensor (n_cry >= 0; nch is the template argument)
NewCompass(nch, n_cry, contrast, mean_yield, sigma_sensor, late) ==
    Bind(init_molecules(n_cry, nch, late), LAMBDA m :
        [nch |-> nch, n_cry |-> n_cry, contrast |-> contrast,
         mean_yield |-> mean_yield, sigma_sensor |-> sigma_sensor,
         phi |-> m.phi, assignments |-> m.assignments,
         channel_counts |-> m.channel_counts])

\* The molecule loop of read: sums per channel, drawing one noise value per molecule.
RECURSIVE ReadLoop(_, _, _, _, _)
ReadLoop(cs, heading, k, sums, rng) ==
    IF k >= cs.n_cry THEN [sums |-> sums, rng |-> rng]
    ELSE LET alpha == heading - cs.phi[k]
             noisy == cs.sigma_sensor > 0
         IN  Bind(singlet_yield(alpha, cs.contrast, cs.mean_yield), LAMBDA y0 :
             Bind(IF noisy THEN Draw(rng, <<"compass", k>>) ELSE rng, LAMBDA rng1 :
             Bind(IF noisy THEN y0 + FMul(cs.sigma_sensor, NormalValue(rng1.state)) ELSE y0,
                  LAMBDA y :
             Bind([k |-> k + 1, sums |-> [sums EXCEPT ![cs.assignments[k]] = @ + y]], LAMBDA s :
                 ReadLoop(cs, heading, s.k, s.sums, rng1)))))

\* The mean without the test of the count: 0.0 / 0 is NaN.
ChannelMean_Unguarded(sum, count) == IF count = 0 THEN NaN ELSE TDiv(sum, count)

\* The channel loop of read: the mean over the channel's molecules.
ChannelMean(sum, count) == IF count > 0 THEN TDiv(sum, count) ELSE 0

\* CompassSensor::read
CompassRead(cs, heading, rng) ==
    Bind(ReadLoop(cs, heading, 0, [c \in 0..(cs.nch - 1) |-> 0], rng), LAMBDA l :
        [channels |-> [c \in 0..(cs.nch - 1) |-> ChannelMean(l.sums[c], cs.channel_counts[c])],
         rng      |-> l.rng,
         cs       |-> cs])

\* Construction of a CompassSensor<nch>: phi_.resize(n_cry_) throws std::length_error
\* for a negative n_cry (ok is FALSE, no sensor exists); any other n_cry is accepted.
ConstructSensor(nch, n_cry, contrast, mean_yield, sigma_sensor, late) ==
    IF n_cry < 0
    THEN [ok |-> FALSE, cs |-> NewCompass(nch, 0, contrast, mean_yield, sigma_sensor, {})]
    ELSE [ok |-> TRUE, cs |-> NewCompass(nch, n_cry, contrast, mean_yield, sigma_sensor, late)]

(***************************************************************************)
(* RingAttractor (ring_attractor.hpp), N = 8 as instantiated by Bug        *)
(***************************************************************************)
N == 8

Units == 0..(N - 1)

\* The 1e-10 of the magnitude tests, rounded up to the fixed-point grid.
EpsZ == 1

RECURSIVE SumSeq(_)
SumSeq(q) == IF q = << >> THEN 0 ELSE Head(q) + SumSeq(Tail(q))

RECURSIVE SumOver(_, _)
SumOver(f, i) == IF i >= N THEN 0 ELSE f[i] + SumOver(f, i + 1)

\* init_connectivity: theta_[i]
Theta(i) == (TWO_PI * i) \div N

\* init_connectivity: W_exc_[i][j]
WExc(w_exc, i, j) == FMul(w_exc, Max(0, Cos(Theta(i) - Theta(j))))

\* RingAttractor::init_bump
init_bump(rng) ==
    Bind(Draw(rng, <<"init_bump", 0>>), LAMBDA rng1 :
    Bind(rng1.state % N, LAMBDA idx :
        [r   |-> [i \in Units |->
                     LET d == Min(Abs(i - idx), N - Abs(i - idx))
                     IN  Max(0, 500 - 150 * d)],
         rng |-> rng1]))

\* RingAttractor::RingAttractor
NewRingAttractor(tau, w_exc, w_inh, g_mag, g_omega, threshold, r_max, noise_sigma, rng) ==
    Bind(init_bump(rng), LAMBDA b :
        [att |-> [tau |-> tau, w_exc |-> w_exc, w_inh |-> w_inh, g_mag |-> g_mag,
                  g_omega |-> g_omega, threshold |-> threshold, r_max |-> r_max,
                  noise_sigma |-> noise_sigma, r |-> b.r],
         rng |-> b.rng])

\* A decode that returns the phase as std::arg gives it, in (-pi, pi].
RingHeading_Signed(att) ==
    Bind(SumOver([i \in Units |-> FMul(att.r[i], Cos(Theta(i)))], 0), LAMBDA re :
    Bind(SumOver([i \in Units |-> FMul(att.r[i], Sin(Theta(i)))], 0), LAMBDA im :
        IF Hypot(re, im) < EpsZ THEN 0 ELSE Atan2(im, re)))

\* RingAttractor::heading
RingHeading(att) ==
    Bind(SumOver([i \in Units |-> FMul(att.r[i], Cos(Theta(i)))], 0), LAMBDA re :
    Bind(SumOver([i \in Units |-> FMul(att.r[i], Sin(Theta(i)))], 0), LAMBDA im :
        IF Hypot(re, im) < EpsZ THEN 0
        ELSE Bind(Atan2(im, re), LAMBDA h : IF h < 0 THEN h + TWO_PI ELSE h)))

RECURSIVE MaxOver(_, _)
MaxOver(f, i) ==
    IF i = N - 1 THEN f[i] ELSE Bind(MaxOver(f, i + 1), LAMBDA m : Max(f[i], m))

RECURSIVE MinOver(_, _)
MinOver(f, i) ==
    IF i = N - 1 THEN f[i] ELSE Bind(MinOver(f, i + 1), LAMBDA m : Min(f[i], m))

\* RingAttractor::bump_amplitude
bump_amplitude(att) == MaxOver(att.r, 0) - MinOver(att.r, 0)

\* Wrap to [-pi, pi] as written in reset, direction_deviation and mean_heading_error.
WrapPi(d) ==
    LET d1 == FMod(d + PI, TWO_PI)
        d2 == IF d1 < 0 THEN d1 + TWO_PI ELSE d1
    IN  d2 - PI

\* A reset that ignores its argument and always places the random bump.
RingReset_IgnoreHeading(att, heading, rng) ==
    Bind(init_bump(rng), LAMBDA b : [att |-> [att EXCEPT !.r = b.r], rng |-> b.rng])

\* RingAttractor::reset
RingReset(att, heading, rng) ==
    IF heading >= 0
    THEN [att |-> [att EXCEPT !.r = [i \in Units |->
                                        Max(0, FMul(500, Cos(WrapPi(Theta(i) - heading))))]],
          rng |-> rng]
    ELSE Bind(init_bump(rng), LAMBDA b : [att |-> [att EXCEPT !.r = b.r], rng |-> b.rng])

\* An error that is the wrapped double-angle difference, not halved.
CompassError_NotHalved(att, compass_input) ==
    Bind(TDiv(SumOver(compass_input, 0), N), LAMBDA mean_c :
    Bind(SumOver([i \in Units |-> FMul(compass_input[i] - mean_c, Cos(2 * Theta(i)))], 0),
         LAMBDA re :
    Bind(SumOver([i \in Units |-> FMul(compass_input[i] - mean_c, Sin(2 * Theta(i)))], 0),
         LAMBDA im :
        IF Hypot(re, im) >= EpsZ
        THEN Bind(Atan2(im, re) - 2 * RingHeading(att), LAMBDA e :
             Bind(<<Sin(e), Cos(e)>>, LAMBDA sc :
                 [valid |-> TRUE, error |-> Atan2(sc[1], sc[2])]))
        ELSE [valid |-> FALSE, error |-> 0])))

\* The compass part of step for a given compass_input: whether |z_compass|
\* exceeds the epsilon, and the signed error if it does.
CompassError(att, compass_input) ==
    Bind(TDiv(SumOver(compass_input, 0), N), LAMBDA mean_c :
    Bind(SumOver([i \in Units |-> FMul(compass_input[i] - mean_c, Cos(2 * Theta(i)))], 0),
         LAMBDA re :
    Bind(SumOver([i \in Units |-> FMul(compass_input[i] - mean_c, Sin(2 * Theta(i)))], 0),
         LAMBDA im :
        IF Hypot(re, im) >= EpsZ
        THEN Bind(Atan2(im, re) - 2 * RingHeading(att), LAMBDA e :
             Bind(<<Sin(e), Cos(e)>>, LAMBDA sc :
                 [valid |-> TRUE, error |-> TDiv(Atan2(sc[1], sc[2]), 2)]))
        ELSE [valid |-> FALSE, error |-> 0])))

\* The compass term of step: I_mag
IMag(att, has_input, compass_input) ==
    IF ~has_input THEN [i \in Units |-> 0]
    ELSE Bind(CompassError(att, compass_input), LAMBDA ce :
             IF ce.valid
             THEN [i \in Units |->
                      FMul(FMul(att.g_mag, ce.error),
                           att.r[(i - 1 + N) % N] - att.r[(i + 1) % N])]
             ELSE [i \in Units |-> 0])

\* An angular-velocity term with the two neighbours exchanged.
IOmega_Reversed(att, angular_velocity) ==
    IF angular_velocity # 0
    THEN [i \in Units |->
             FMul(FMul(att.g_omega, angular_velocity),
                  att.r[(i + 1) % N] - att.r[(i - 1 + N) % N])]
    ELSE [i \in Units |-> 0]

\* The angular-velocity term of step: I_omega
IOmega(att, angular_velocity) ==
    IF angular_velocity # 0
    THEN [i \in Units |->
             FMul(FMul(att.g_omega, angular_velocity),
                  att.r[(i - 1 + N) % N] - att.r[(i + 1) % N])]
    ELSE [i \in Units |-> 0]

\* The noise loop of step: one draw per unit, ascending.
RECURSIVE NoiseLoop(_, _, _, _)
NoiseLoop(att, i, noise, rng) ==
    IF i >= N THEN [noise |-> noise, rng |-> rng]
    ELSE Bind(Draw(rng, <<"attractor", i>>), LAMBDA rng1 :
         Bind([i |-> i + 1,
               noise |-> [noise EXCEPT ![i] = FMul(att.noise_sigma, NormalValue(rng1.state))]],
              LAMBDA s : NoiseLoop(att, s.i, s.noise, rng1)))

\* A rate update that omits the final clamp of the rate.
RateUpdate_NoFinalClamp(att, r_i, drive, dt) ==
    Bind(Clamp(drive, 0, att.r_max), LAMBDA activated :
    Bind(FDiv(-r_i + activated, att.tau), LAMBDA dr :
        r_i + FMul(dr, dt)))

\* The rate update of step for one unit.
RateUpdate(att, r_i, drive, dt) ==
    Bind(Clamp(drive, 0, att.r_max), LAMBDA activated :
    Bind(FDiv(-r_i + activated, att.tau), LAMBDA dr :
    Bind(r_i + FMul(dr, dt), LAMBDA r_new :
        Clamp(r_new, 0, att.r_max))))

\* RingAttractor::step
RingStep(att, dt, has_input, compass_input, angular_velocity, rng) ==
    Bind([i \in Units |->
             SumOver([j \in Units |-> FMul(WExc(att.w_exc, i, j), att.r[j])], 0)], LAMBDA exc :
    Bind(TDiv(SumOver(att.r, 0), N), LAMBDA mean_r :
    Bind(FMul(att.w_inh, mean_r), LAMBDA inh :
    Bind(IMag(att, has_input, compass_input), LAMBDA I_mag :
    Bind(IOmega(att, angular_velocity), LAMBDA I_omega :
    Bind(IF att.noise_sigma > 0
         THEN NoiseLoop(att, 0, [i \in Units |-> 0], rng)
         ELSE [noise |-> [i \in Units |-> 0], rng |-> rng], LAMBDA nz :
        [att |-> [att EXCEPT !.r = [i \in Units |->
                     RateUpdate(att, att.r[i],
                                exc[i] - inh + I_mag[i] + I_omega[i] - att.threshold + nz.noise[i],
                                dt)]],
         rng |-> nz.rng]))))))

(***************************************************************************)
(* CPU4 (path_integration.hpp)                                             *)
(***************************************************************************)
\* CPU4::CPU4
NewCPU4(leak, gain) == [leak |-> leak, gain |-> gain, memory |-> [i \in Units |-> 0]]

\* An update that takes the cosine without rectifying it.
CPU4Update_Unrectified(c, heading, speed, dt) ==
    [c EXCEPT !.memory = [i \in Units |->
        LET drive == FMul(FMul(c.gain, speed), Cos(heading - Theta(i)))
            m     == IF c.leak > 0 THEN FMul(c.memory[i], SCALE - FMul(c.leak, dt))
                     ELSE c.memory[i]
        IN  m + FMul(drive, dt)]]

\* An update that never decays the memory.
CPU4Update_NoLeak(c, heading, speed, dt) ==
    [c EXCEPT !.memory = [i \in Units |->
        c.memory[i] + FMul(FMul(FMul(c.gain, speed), Max(Cos(heading - Theta(i)), 0)), dt)]]

\* CPU4::update
CPU4Update(c, heading, speed, dt) ==
    [c EXCEPT !.memory = [i \in Units |->
        LET cos_val == Cos(heading - Theta(i))
            drive   == FMul(FMul(c.gain, speed), Max(cos_val, 0))
            m       == IF c.leak > 0 THEN FMul(c.memory[i], SCALE - FMul(c.leak, dt))
                       ELSE c.memory[i]
        IN  m + FMul(drive, dt)]]

\* CPU4::displacement
displacement(c) ==
    [x |-> SumOver([i \in Units |-> FMul(c.memory[i], Cos(Theta(i)))], 0),
     y |-> SumOver([i \in Units |-> FMul(c.memory[i], Sin(Theta(i)))], 0)]

\* CPU4::home_vector
home_vector(c) ==
    Bind(displacement(c), LAMBDA d :
        [distance |-> Hypot(d.x, d.y), direction |-> Atan2(-d.y, -d.x)])

\* CPU4::reset
CPU4Reset(c) == [c EXCEPT !.memory = [i \in Units |-> 0]]

(***************************************************************************)
(* Bug (bug.hpp)                                                           *)
(***************************************************************************)
\* BugState
BugState(x, y, heading, estimated_heading, amplitude) ==
    [x |-> x, y |-> y, heading |-> heading,
     estimated_heading |-> estimated_heading, bump_amplitude |-> amplitude]

\* An engine that is always seeded from std::random_device.
SeedRng_Entropy(seed, entropy) == NewRng(entropy)

\* The engine of Bug::Bug: seeded from p.seed, or from std::random_device when it is 0.
SeedRng(seed, entropy) == IF seed # 0 THEN NewRng(seed) ELSE NewRng(entropy)

\* An initial heading that draws from the engine even when heading0 is given.
InitialHeading_AlwaysDraw(heading0, rng) ==
    Bind(Draw(rng, <<"heading0", 0>>), LAMBDA rng1 :
        [heading |-> IF heading0 >= 0 THEN heading0 ELSE rng1.state % TWO_PI, rng |-> rng1])

\* The initial heading of Bug::Bug: heading0, or a uniform draw from [0, 2 pi).
InitialHeading(heading0, rng) ==
    IF heading0 >= 0 THEN [heading |-> heading0, rng |-> rng]
    ELSE Bind(Draw(rng, <<"heading0", 0>>), LAMBDA rng1 :
             [heading |-> rng1.state % TWO_PI, rng |-> rng1])

\* Bug::Bug (with fewer than 16 molecules none is equidistant from two of the
\* 8 channel centres, so no rounding enters the assignment)
NewBug(p, entropy) ==
    Bind(SeedRng(p.seed, entropy), LAMBDA rng0 :
    Bind(InitialHeading(p.heading0, rng0), LAMBDA h :
    Bind(NewCompass(N, p.n_cry, p.contrast, p.mean_yield, p.sigma_sensor, {}), LAMBDA cs :
    Bind(NewRingAttractor(p.ra_tau, p.ra_w_exc, p.ra_w_inh, p.ra_g_mag, p.ra_g_omega,
                          0, SCALE, p.ra_noise_sigma, h.rng), LAMBDA ra :
    Bind(NewCPU4(p.cpu4_leak, p.cpu4_gain), LAMBDA c4 :
    Bind(RingReset(ra.att, h.heading, ra.rng), LAMBDA rst :
        [params |-> p, rng |-> rst.rng,
         x |-> p.x0, y |-> p.y0, heading |-> h.heading,
         speed |-> p.speed, goal_heading |-> p.goal_heading, kappa |-> p.kappa,
         sigma_theta |-> p.sigma_theta, sigma_xy |-> p.sigma_xy,
         compass |-> cs, attractor |-> rst.att, cpu4 |-> c4,
         history |-> << BugState(p.x0, p.y0, h.heading,
                                 RingHeading(rst.att), bump_amplitude(rst.att)) >>]))))))

\* A heading update that reduces modulo 2 pi but leaves a negative remainder.
SteerHeading_NoNegativeWrap(heading, angular_command, dt, noise_theta) ==
    Bind(heading + FMul(angular_command, dt) + noise_theta, LAMBDA h1 :
        FMod(h1, TWO_PI))

\* Step 7 of Bug::step: the heading after the Euler-Maruyama update and the wrap.
SteerHeading(heading, angular_command, dt, noise_theta) ==
    Bind(heading + FMul(angular_command, dt) + noise_theta, LAMBDA h1 :
    Bind(FMod(h1, TWO_PI), LAMBDA h2 :
        IF h2 < 0 THEN h2 + TWO_PI ELSE h2))

\* The position noise drawn before the heading noise.
MotionDraws_XFirst(rng) ==
    Bind(Draw(rng, <<"x", 0>>), LAMBDA r1 :
    Bind(Draw(r1, <<"y", 0>>), LAMBDA r2 :
    Bind(Draw(r2, <<"theta", 0>>), LAMBDA r3 :
        [theta |-> NormalValue(r3.state), x |-> NormalValue(r1.state),
         y |-> NormalValue(r2.state), rng |-> r3])))

\* Steps 7 and 8 of Bug::step: the three motion draws, in the order they are made.
MotionDraws(rng) ==
    Bind(Draw(rng, <<"theta", 0>>), LAMBDA r1 :
    Bind(Draw(r1, <<"x", 0>>), LAMBDA r2 :
    Bind(Draw(r2, <<"y", 0>>), LAMBDA r3 :
        [theta |-> NormalValue(r1.state), x |-> NormalValue(r2.state),
         y |-> NormalValue(r3.state), rng |-> r3])))

\* A history that keeps only its most recent entries.
PushHistory_Bounded(history, entry) ==
    IF Len(history) >= 2 THEN Append(Tail(history), entry) ELSE Append(history, entry)

\* A history that records the newest entry first.
PushHistory_Front(history, entry) == << entry >> \o history

\* Step 9 of Bug::step: history_.push_back
PushHistory(history, entry) == Append(history, entry)

\* Step 4 of Bug::step: estimated_heading, computed before attractor_->step.
SteerEstimate(att, mag_dir) == RingHeading(att) + mag_dir

\* A path-integrator heading taken from the attractor before its update.
IntegratorHeading_BeforeUpdate(att_before, att_after, mag_dir) == RingHeading(att_before)

\* Step 6 of Bug::step: the heading handed to cpu4_->update, read after attractor_->step.
IntegratorHeading(att_before, att_after, mag_dir) == RingHeading(att_after)

\* A recorded estimate that repeats the estimate used for steering.
RecordedEstimate_OfSteering(att_before, att_after, mag_dir) == RingHeading(att_before) + mag_dir

\* Step 9 of Bug::step: est_h, recomputed after attractor_->step.
RecordedEstimate(att_before, att_after, mag_dir) == RingHeading(att_after) + mag_dir

\* A step that moves along the old heading, before the heading is updated.
BugStep_MoveBeforeSteer(b, dt, ls) ==
    Bind(magnetic_direction(ls, b.x, b.y).direction, LAMBDA mag_dir :
    Bind(b.heading - mag_dir, LAMBDA relative_heading :
    Bind(CompassRead(b.compass, relative_heading, [b.rng EXCEPT !.log = << >>]), LAMBDA cr :
    Bind(b.goal_heading - SteerEstimate(b.attractor, mag_dir), LAMBDA heading_error :
    Bind(FMul(b.kappa, Sin(heading_error)), LAMBDA angular_command :
    Bind(RingStep(b.attractor, dt, TRUE, cr.channels, angular_command, cr.rng), LAMBDA rs :
    Bind(CPU4Update(b.cpu4, IntegratorHeading(b.attractor, rs.att, mag_dir), b.speed, dt),
         LAMBDA c4 :
    Bind(MotionDraws(rs.rng), LAMBDA md :
    Bind(FSqrt(dt), LAMBDA sqrt_dt :
    Bind(FMul(FMul(b.sigma_theta, sqrt_dt), md.theta), LAMBDA noise_theta :
    Bind(SteerHeading(b.heading, angular_command, dt, noise_theta), LAMBDA heading :
    Bind(FMul(FMul(b.sigma_xy, sqrt_dt), md.x), LAMBDA noise_x :
    Bind(FMul(FMul(b.sigma_xy, sqrt_dt), md.y), LAMBDA noise_y :
    Bind(b.x + FMul(FMul(b.speed, Cos(b.heading)), dt) + noise_x, LAMBDA x :
    Bind(b.y + FMul(FMul(b.speed, Sin(b.heading)), dt) + noise_y, LAMBDA y :
    Bind(RecordedEstimate(b.attractor, rs.att, mag_dir), LAMBDA est_h :
        [bug |-> [b EXCEPT !.compass = cr.cs, !.attractor = rs.att, !.cpu4 = c4,
                           !.rng = md.rng, !.heading = heading, !.x = x, !.y = y,
                           !.history = PushHistory(b.history,
                                           BugState(x, y, heading, est_h, bump_amplitude(rs.att)))],
         ret |-> in_bounds(ls, x, y)]))))))))))))))))

\* Bug::step; the draw log is restarted so that it holds the draws of this step.
BugStep(b, dt, ls) ==
    Bind(magnetic_direction(ls, b.x, b.y).direction, LAMBDA mag_dir :
    Bind(b.heading - mag_dir, LAMBDA relative_heading :
    Bind(CompassRead(b.compass, relative_heading, [b.rng EXCEPT !.log = << >>]), LAMBDA cr :
    Bind(b.goal_heading - SteerEstimate(b.attractor, mag_dir), LAMBDA heading_error :
    Bind(FMul(b.kappa, Sin(heading_error)), LAMBDA angular_command :
    Bind(RingStep(b.attractor, dt, TRUE, cr.channels, angular_command, cr.rng), LAMBDA rs :
    Bind(CPU4Update(b.cpu4, IntegratorHeading(b.attractor, rs.att, mag_dir), b.speed, dt),
         LAMBDA c4 :
    Bind(MotionDraws(rs.rng), LAMBDA md :
    Bind(FSqrt(dt), LAMBDA sqrt_dt :
    Bind(FMul(FMul(b.sigma_theta, sqrt_dt), md.theta), LAMBDA noise_theta :
    Bind(SteerHeading(b.heading, angular_command, dt, noise_theta), LAMBDA heading :
    Bind(FMul(FMul(b.sigma_xy, sqrt_dt), md.x), LAMBDA noise_x :
    Bind(FMul(FMul(b.sigma_xy, sqrt_dt), md.y), LAMBDA noise_y :
    Bind(b.x + FMul(FMul(b.speed, Cos(heading)), dt) + noise_x, LAMBDA x :
    Bind(b.y + FMul(FMul(b.speed, Sin(heading)), dt) + noise_y, LAMBDA y :
    Bind(RecordedEstimate(b.attractor, rs.att, mag_dir), LAMBDA est_h :
        [bug |-> [b EXCEPT !.compass = cr.cs, !.attractor = rs.att, !.cpu4 = c4,
                           !.rng = md.rng, !.heading = heading, !.x = x, !.y = y,
                           !.history = PushHistory(b.history,
                                           BugState(x, y, heading, est_h, bump_amplitude(rs.att)))],
         ret |-> in_bounds(ls, x, y)]))))))))))))))))

\* A loop bound that is one too large.
RunSteps_OffByOne(duration, dt) == TDiv(duration, dt) + 1

\* static_cast<int>(duration / dt) of Bug::run (dt > 0)
RunSteps(duration, dt) == TDiv(duration, dt)

\* The loop of Bug::run; executed counts the calls of step.
RECURSIVE RunLoop(_, _, _, _, _)
RunLoop(b, ls, dt, i, n_steps) ==
    IF i >= n_steps THEN [bug |-> b, ret |-> TRUE, executed |-> i]
    ELSE Bind(BugStep(b, dt, ls), LAMBDA s :
             IF ~s.ret THEN [bug |-> s.bug, ret |-> FALSE, executed |-> i + 1]
             ELSE RunLoop(s.bug, ls, dt, i + 1, n_steps))

\* A run that refuses to start from a position outside the landscape.
BugRun_BoundsFirst(b, ls, duration, dt) ==
    IF ~in_bounds(ls, b.x, b.y) THEN [bug |-> b, ret |-> FALSE, executed |-> 0]
    ELSE RunLoop(b, ls, dt, 0, RunSteps(duration, dt))

\* Bug::run
BugRun(b, ls, duration, dt) == RunLoop(b, ls, dt, 0, RunSteps(duration, dt))

(***************************************************************************)
(* State                                                                   *)
(***************************************************************************)
VARIABLES
    bug,       \* the Bug under test
    twin,      \* a second Bug built from the same Params and driven by the same calls
    nsteps,    \* number of executions of Bug::step on bug so far
    last,      \* the last call made on the two Bugs, with its arguments and results
    sensor,    \* a stand-alone CompassSensor
    srng,      \* the engine the stand-alone sensor borrows
    reading,   \* the last read of the stand-alone sensor
    land,      \* a stand-alone Landscape
    probe,     \* the last field query on the stand-alone Landscape as it is now
    ring,      \* a stand-alone RingAttractor with its engine and the calls made on it
    integ,     \* a stand-alone CPU4, a leak-free CPU4 given the same calls, and the calls
    node,      \* a BugNode of the scene, with the calls made on it
    res        \* the LandscapeResource of the scene, with the calls made on it

bugVars == <<bug, twin, nsteps, last>>

sensorVars == <<sensor, srng, reading>>

fieldVars == <<land, probe>>

benchVars == <<ring, integ>>

sceneVars == <<node, res>>

vars == <<bug, twin, nsteps, last, sensor, srng, reading, land, probe, ring, integ, node, res>>

(***************************************************************************)
(* Bounds and inputs                                                       *)
(***************************************************************************)
MaxHistory == 4

MaxNCry == 12

MaxReads == 2

MaxAnomalies == 2

\* BugParams defaults (bug.hpp)
DefaultSigmaTheta == 100

DefaultSigmaXY == 50

DefaultSigmaSensor == 20

DefaultRaNoiseSigma == 10

DefaultContrast == 150

DefaultMeanYield == 500

DefaultKappa == 2000

DefaultRaTau == 50

DefaultRaWExc == 1500

DefaultRaWInh == 4500

DefaultRaGMag == 2000

DefaultRaGOmega == 500

DefaultCpu4Gain == 1000

\* radians(65), the default inclination of Landscape
DefaultInclination == 1134

QuietNoise == [sigma_theta |-> 0, sigma_xy |-> 0, sigma_sensor |-> 0, ra_noise_sigma |-> 0]

DefaultNoise ==
    [sigma_theta |-> DefaultSigmaTheta, sigma_xy |-> DefaultSigmaXY,
     sigma_sensor |-> DefaultSigmaSensor, ra_noise_sigma |-> DefaultRaNoiseSigma]

NoiseProfiles ==
    { QuietNoise, DefaultNoise,
      [QuietNoise EXCEPT !.sigma_sensor = DefaultSigmaSensor],
      [QuietNoise EXCEPT !.ra_noise_sigma = DefaultRaNoiseSigma] }

\* A fixed seed, and 0 for a seed taken from std::random_device.
FixedSeed == 42

EntropySeeds == {11, 12}

NCrys == {0, 3, MaxNCry}

BugConfig(h0, g, nz, n, sd) ==
    [x0 |-> 1500, y0 |-> 1000, heading0 |-> h0, goal_heading |-> g, speed |-> 50 * SCALE,
     kappa |-> DefaultKappa, sigma_theta |-> nz.sigma_theta, sigma_xy |-> nz.sigma_xy,
     n_cry |-> n, contrast |-> DefaultContrast, mean_yield |-> DefaultMeanYield,
     sigma_sensor |-> nz.sigma_sensor,
     ra_tau |-> DefaultRaTau, ra_w_exc |-> DefaultRaWExc, ra_w_inh |-> DefaultRaWInh,
     ra_g_mag |-> DefaultRaGMag, ra_g_omega |-> DefaultRaGOmega,
     ra_noise_sigma |-> nz.ra_noise_sigma,
     cpu4_leak |-> 0, cpu4_gain |-> DefaultCpu4Gain, seed |-> sd]

\* Start headings with their goals: north with goal north, random with the default goal.
\* A configured initial heading of more than one full turn (heading0 = 7.0).
OverTurnHeading == 7 * SCALE

Courses == { <<0, 0>>, <<-SCALE, (3 * PI) \div 4>> }

BugConfigs ==
    { BugConfig(c[1], c[2], nz, n, FixedSeed) : c \in Courses, nz \in NoiseProfiles, n \in NCrys }
    \cup { BugConfig(c[1], c[2], DefaultNoise, 3, 0) : c \in Courses }
    \cup { BugConfig(OverTurnHeading, 0, QuietNoise, 3, FixedSeed) }

SmallLand == NewLandscape(2 * SCALE, 2 * SCALE, 50 * SCALE, 0, DefaultInclination)

WideLand ==
    add_anomaly(NewLandscape(4 * SCALE, 4 * SCALE, 50 * SCALE, 0, DefaultInclination),
                GaussianAnomaly(2 * SCALE, SCALE, 5 * SCALE, SCALE))

Landscapes == {SmallLand, WideLand}

Dts == {10}

Durations == {-15, 5, 20, 30}

IdleBug == NewBug(BugConfig(0, 0, QuietNoise, 0, FixedSeed), 11)

NoCall == [op |-> "none", ret |-> TRUE, twin_ret |-> TRUE, len0 |-> 1, duration |-> 0,
           dt |-> 0, ls |-> SmallLand, before |-> IdleBug, executed |-> 0, fell |-> FALSE]

NoSensor == [ok |-> FALSE, cs |-> NewCompass(1, 0, 0, 0, 0, {})]

NoReading == [n |-> 0, heading |-> 0, channels |-> << >>]

NoProbe ==
    [x |-> 0, y |-> 0, perts |-> << >>,
     field |-> magnetic_direction(SmallLand, 0, 0), bg |-> magnetic_direction(SmallLand, 0, 0)]

NoRing ==
    [att |-> NewRingAttractor(DefaultRaTau, DefaultRaWExc, DefaultRaWInh, DefaultRaGMag,
                              DefaultRaGOmega, 0, SCALE, 0, NewRng(1)).att,
     rng |-> NewRng(1), h0 |-> 0, n |-> 0, steady |-> TRUE, dt |-> 0, omega |-> 0,
     input |-> FALSE, prev |-> 0, err |-> [valid |-> FALSE, error |-> 0],
     imag |-> [i \in Units |-> 0], decoded |-> [done |-> FALSE, h |-> 0]]

NoInteg ==
    [leaky |-> NewCPU4(0, DefaultCpu4Gain), plain |-> NewCPU4(0, DefaultCpu4Gain),
     n |-> 0, T |-> 0, north |-> TRUE, straight |-> TRUE, slow |-> TRUE, heading |-> 0]

(***************************************************************************)
(* LandscapeResource (gdext/landscape_resource.cpp)                        *)
(***************************************************************************)
\* inclination_deg_ * M_PI / 180.0, with the angle in whole degrees
DegToRad(deg) == TDiv(deg * PI, 180)

\* LandscapeResource::LandscapeResource, with the default member initialisers
NewLandscapeResource ==
    [B0 |-> 50 * SCALE, declination |-> 0, inclination_deg |-> 65,
     sim_width |-> 1000 * SCALE, sim_height |-> 1000 * SCALE,
     landscape |-> NewLandscape(1000 * SCALE, 1000 * SCALE, 50 * SCALE, 0, DegToRad(65))]

\* A rebuild that carries the anomalies over into the new Landscape.
rebuild_KeepAnomalies(r) ==
    [r EXCEPT !.landscape =
        [NewLandscape(r.sim_width, r.sim_height, r.B0, r.declination,
                      DegToRad(r.inclination_deg))
            EXCEPT !.anomalies = r.landscape.anomalies]]

\* LandscapeResource::rebuild
rebuild(r) ==
    [r EXCEPT !.landscape = NewLandscape(r.sim_width, r.sim_height, r.B0, r.declination,
                                         DegToRad(r.inclination_deg))]

\* LandscapeResource::set_B0
set_B0(r, p_B0) == rebuild([r EXCEPT !.B0 = p_B0])

\* LandscapeResource::set_declination
set_declination(r, p_dec) == rebuild([r EXCEPT !.declination = p_dec])

\* LandscapeResource::set_inclination_deg
set_inclination_deg(r, p_incl) == rebuild([r EXCEPT !.inclination_deg = p_incl])

\* LandscapeResource::set_sim_width
set_sim_width(r, p_w) == rebuild([r EXCEPT !.sim_width = p_w])

\* LandscapeResource::set_sim_height
set_sim_height(r, p_h) == rebuild([r EXCEPT !.sim_height = p_h])

\* The resource as constructed; op is the kind of the last call made on it and
\* dropped the number of anomalies its Landscape held when it was last replaced.
NoRes == [obj |-> NewLandscapeResource, op |-> "new", dropped |-> 0]

(***************************************************************************)
(* BugNode (gdext/bug_node.cpp)                                            *)
(***************************************************************************)
\* The number of molecules of the node's compass, standing for BugParams::n_cry = 1000.
NodeNCry == 4

MaxNodeHistory == 5

\* BugParams with its default member initialisers
DefaultBugParams ==
    [x0 |-> 500 * SCALE, y0 |-> 100 * SCALE, heading0 |-> -SCALE,
     goal_heading |-> (3 * PI) \div 4, speed |-> SCALE,
     kappa |-> DefaultKappa, sigma_theta |-> DefaultSigmaTheta, sigma_xy |-> DefaultSigmaXY,
     n_cry |-> NodeNCry, contrast |-> DefaultContrast, mean_yield |-> DefaultMeanYield,
     sigma_sensor |-> DefaultSigmaSensor,
     ra_tau |-> DefaultRaTau, ra_w_exc |-> DefaultRaWExc, ra_w_inh |-> DefaultRaWInh,
     ra_g_mag |-> DefaultRaGMag, ra_g_omega |-> DefaultRaGOmega,
     ra_noise_sigma |-> DefaultRaNoiseSigma,
     cpu4_leak |-> 0, cpu4_gain |-> DefaultCpu4Gain, seed |-> 0]

\* FALLBACK_Y of query_terrain_height
FallbackY == 5250 * SCALE

\* BugNode::query_terrain_height in a scene whose ray hits no terrain
query_terrain_height(gx, gz) == FallbackY

\* BugNode::sim_to_godot, with SCALE_X = 18.87 and SCALE_Y = 22.26
sim_to_godot(sx, sy) ==
    Bind(TDiv((sx - 500 * SCALE) * 1887, 100), LAMBDA gx :
    Bind(-TDiv((sy - 500 * SCALE) * 2226, 100), LAMBDA gz :
        Vec3(gx, query_terrain_height(gx, gz), gz)))

\* BugNode::BugNode with the exported properties seed and speed of the scene;
\* landscape_res is whether a resource is set and has_bug whether bug_ is non-null.
NewBugNode(p_seed, p_speed) ==
    [seed |-> p_seed, goal_heading |-> (3 * PI) \div 4, speed |-> p_speed,
     kappa |-> DefaultKappa, contrast |-> DefaultContrast,
     sigma_theta |-> DefaultSigmaTheta, sigma_xy |-> DefaultSigmaXY,
     steps_per_frame |-> 10,
     landscape_res |-> FALSE, has_bug |-> FALSE, bug |-> IdleBug, running |-> FALSE,
     position |-> ZeroVec, yaw |-> 0]

\* BugNode::rebuild_bug
rebuild_bug(n, entropy) ==
    Bind(NewBug([DefaultBugParams EXCEPT !.seed = n.seed, !.goal_heading = n.goal_heading,
                                         !.speed = n.speed, !.kappa = n.kappa,
                                         !.contrast = n.contrast,
                                         !.sigma_theta = n.sigma_theta,
                                         !.sigma_xy = n.sigma_xy], entropy), LAMBDA b :
        [n EXCEPT !.bug = b, !.has_bug = TRUE, !.running = FALSE,
                  !.position = sim_to_godot(b.x, b.y)])

\* BugNode::start
start(n, entropy) ==
    [(IF ~n.has_bug THEN rebuild_bug(n, entropy) ELSE n) EXCEPT !.running = TRUE]

\* BugNode::stop
stop(n) == [n EXCEPT !.running = FALSE]

\* BugNode::set_steps_per_frame
set_steps_per_frame(n, p_steps) == [n EXCEPT !.steps_per_frame = p_steps]

\* BugNode::set_landscape_resource
set_landscape_resource(n, p_res) == [n EXCEPT !.landscape_res = p_res]

\* A tick that goes on stepping whether or not the node is running.
Processing_IgnoreRunning(n) == n.has_bug /\ n.landscape_res

\* The guard of BugNode::_physics_process
Processing(n) == n.running /\ n.has_bug /\ n.landscape_res

\* delta / steps_per_frame_; not finite for zero steps per frame
FrameDt(delta, steps) == IF steps = 0 THEN NaN ELSE TDiv(delta, steps)

\* The loop of BugNode::_physics_process; executed counts the calls of step.
RECURSIVE ProcessLoop(_, _, _, _, _)
ProcessLoop(b, ls, dt, i, steps) ==
    IF i >= steps THEN [bug |-> b, running |-> TRUE, executed |-> i]
    ELSE Bind(BugStep(b, dt, ls), LAMBDA s :
             IF ~s.ret THEN [bug |-> s.bug, running |-> FALSE, executed |-> i + 1]
             ELSE ProcessLoop(s.bug, ls, dt, i + 1, steps))

\* BugNode::_physics_process on a node whose resource is r
physics_process(n, r, delta) ==
    IF ~Processing(n) THEN [node |-> n, executed |-> 0]
    ELSE Bind(ProcessLoop(n.bug, r.landscape, FrameDt(delta, n.steps_per_frame), 0,
                          n.steps_per_frame), LAMBDA s :
             [node |-> [n EXCEPT !.bug = s.bug, !.running = s.running,
                                 !.position = sim_to_godot(s.bug.x, s.bug.y),
                                 !.yaw = -(s.bug.heading - HALF_PI)],
              executed |-> s.executed])

\* The node as constructed. op is the kind of the last call made on it and
\* executed the steps it ran; of a tick or a start, pre is the node the call
\* found and was_halted the value of halted it found; ls is the Landscape a tick
\* found; halted is whether a step has returned false with no start since, and
\* readied whether _ready has run.
FreshNode(p_seed, p_speed) ==
    [obj |-> NewBugNode(p_seed, p_speed), op |-> "new", pre |-> NewBugNode(p_seed, p_speed),
     ls |-> NewLandscapeResource.landscape, executed |-> 0,
     halted |-> FALSE, was_halted |-> FALSE, readied |-> FALSE]

NoNode == FreshNode(42, SCALE)

(***************************************************************************)
(* The Bug driven by step and run                                          *)
(***************************************************************************)
Init ==
    /\ \E p \in BugConfigs, e1 \in EntropySeeds, e2 \in EntropySeeds :
          /\ bug = NewBug(p, e1)
          /\ twin = NewBug(p, e2)
    /\ nsteps = 0
    /\ last = NoCall
    /\ sensor = NoSensor
    /\ srng = NewRng(1)
    /\ reading = NoReading
    /\ land = SmallLand
    /\ probe = NoProbe
    /\ ring = NoRing
    /\ integ = NoInteg
    /\ node = NoNode
    /\ res = NoRes

\* A step that is refused once some earlier step has returned false.
Step_Latched(dt, ls) ==
    /\ Len(bug.history) < MaxHistory
    /\ \E s \in {IF last.fell THEN [bug |-> bug, ret |-> FALSE] ELSE BugStep(bug, dt, ls)},
          t \in {BugStep(twin, dt, ls)} :
           /\ bug' = s.bug
           /\ twin' = t.bug
           /\ nsteps' = nsteps + 1
           /\ last' = [op |-> "step", ret |-> s.ret, twin_ret |-> t.ret,
                       len0 |-> Len(bug.history), duration |-> dt, dt |-> dt, ls |-> ls,
                       before |-> bug, executed |-> 1, fell |-> last.fell \/ ~s.ret]
    /\ UNCHANGED <<sceneVars, sensorVars, fieldVars, benchVars>>

\* bug.step(dt, ls), and the same call on the twin
Step(dt, ls) ==
    /\ Len(bug.history) < MaxHistory
    /\ \E s \in {BugStep(bug, dt, ls)}, t \in {BugStep(twin, dt, ls)} :
           /\ bug' = s.bug
           /\ twin' = t.bug
           /\ nsteps' = nsteps + 1
           /\ last' = [op |-> "step", ret |-> s.ret, twin_ret |-> t.ret,
                       len0 |-> Len(bug.history), duration |-> dt, dt |-> dt, ls |-> ls,
                       before |-> bug, executed |-> 1, fell |-> last.fell \/ ~s.ret]
    /\ UNCHANGED <<sceneVars, sensorVars, fieldVars, benchVars>>

\* bug.run(ls, duration, dt), and the same call on the twin
Run(duration, dt, ls) ==
    /\ Len(bug.history) + Max(0, RunSteps(duration, dt)) <= MaxHistory
    /\ \E s \in {BugRun(bug, ls, duration, dt)}, t \in {BugRun(twin, ls, duration, dt)} :
           /\ bug' = s.bug
           /\ twin' = t.bug
           /\ nsteps' = nsteps + s.executed
           /\ last' = [op |-> "run", ret |-> s.ret, twin_ret |-> t.ret,
                       len0 |-> Len(bug.history), duration |-> duration, dt |-> dt, ls |-> ls,
                       before |-> bug, executed |-> s.executed,
                       fell |-> last.fell \/ ~s.ret]
    /\ UNCHANGED <<sceneVars, sensorVars, fieldVars, benchVars>>

Next ==
    \/ \E dt \in Dts, ls \in Landscapes : Step(dt, ls)
    \/ \E d \in Durations, dt \in Dts, ls \in Landscapes : Run(d, dt, ls)

Spec == Init /\ [][Next]_vars

(***************************************************************************)
(* Properties of the Bug                                                   *)
(***************************************************************************)
\* The position of history entry i lies in the closed rectangle of landscape ls.
EntryInside(ls, i) ==
    /\ 0 <= bug.history[i].x /\ bug.history[i].x <= ls.width
    /\ 0 <= bug.history[i].y /\ bug.history[i].y <= ls.height

\* C1: history().size() is 1 + the number of step executions so far, the
\* steps run inside run and a step that ended out of bounds included.
C1_HistoryLength == Len(bug.history) = 1 + nsteps

C1_Witness == last.op = "run" /\ ~last.ret /\ nsteps >= 2 /\ Len(bug.history) = 1 + nsteps

\* C2: the history is append-only: entry 0 is the initial condition, every
\* call leaves the existing entries as they are and appends one entry per step.
C2_AppendOnly ==
    /\ [](/\ bug.history[1].x = bug.params.x0
          /\ bug.history[1].y = bug.params.y0
          /\ (bug.params.heading0 >= 0 => bug.history[1].heading = bug.params.heading0))
    /\ [][/\ Len(bug.history') = Len(bug.history) + (nsteps' - nsteps)
          /\ \A i \in 1..Len(bug.history) : bug.history'[i] = bug.history[i]]_vars

C2_Witness == last.op = "run" /\ Len(bug.history) - last.len0 >= 2 /\ last.len0 >= 2

\* C3: run executes at most floor(duration/dt) steps one after another; it
\* returns false at the first step that ends out of bounds and runs no further
\* step; it returns true after exactly floor(duration/dt) steps that all ended
\* in bounds (no step when the quotient is not positive).
C3_Run ==
    last.op = "run" =>
        LET n == Max(0, last.duration \div last.dt)
            k == Len(bug.history) - last.len0
        IN  /\ k <= n
            /\ \A i \in (last.len0 + 1)..(Len(bug.history) - 1) : EntryInside(last.ls, i)
            /\ last.ret => k = n /\ (k > 0 => EntryInside(last.ls, Len(bug.history)))
            /\ ~last.ret => k >= 1 /\ ~EntryInside(last.ls, Len(bug.history))

C3_Witness ==
    /\ last.op = "run" /\ ~last.ret
    /\ Len(bug.history) - last.len0 = 2
    /\ last.duration \div last.dt = 3

\* C4: step returns true exactly when the position it reached lies in the
\* closed rectangle [0,width] x [0,height]; in either case the step has updated
\* the state and appended the entry of the position reached.
C4_StepBounds ==
    last.op = "step" =>
        /\ last.ret = (/\ 0 <= bug.x /\ bug.x <= last.ls.width
                       /\ 0 <= bug.y /\ bug.y <= last.ls.height)
        /\ Len(bug.history) = last.len0 + 1
        /\ bug.history[Len(bug.history)].x = bug.x
        /\ bug.history[Len(bug.history)].y = bug.y
        /\ bug.history[Len(bug.history)].heading = bug.heading

C4_Witness == last.op = "step" /\ last.ret /\ bug.x = last.ls.width

\* The draws of one step for Params p, in order.
StepDraws(p) ==
    (IF p.sigma_sensor > 0 THEN [k \in 1..p.n_cry |-> <<"compass", k - 1>>] ELSE << >>)
    \o (IF p.ra_noise_sigma > 0 THEN [i \in 1..N |-> <<"attractor", i - 1>>] ELSE << >>)
    \o << <<"theta", 0>>, <<"x", 0>>, <<"y", 0>> >>

\* C5: the draws of every step are, in this order: one per compass unit in
\* ascending index when the sensor noise sigma is positive, one per ring unit
\* in ascending index when the estimator noise sigma is positive, the heading
\* noise, the x noise, the y noise; and nothing else.
C5_DrawOrder == nsteps > 0 => bug.rng.log = StepDraws(bug.params)

C5_Witness ==
    /\ nsteps > 0
    /\ bug.params.sigma_sensor > 0 /\ bug.params.n_cry > 1
    /\ bug.params.ra_noise_sigma > 0
    /\ Len(bug.rng.log) = bug.params.n_cry + N + 3

\* C6: two Bugs built with the same non-zero seed and the same parameters and
\* driven by the same calls on the same landscapes are in the same state after
\* every call, and the calls returned the same values.
C6_Reproducible == bug.params.seed # 0 => bug = twin /\ last.ret = last.twin_ret

C6_Witness ==
    /\ bug.params.seed # 0 /\ bug.params.heading0 < 0
    /\ bug.params.sigma_theta > 0 /\ bug.params.sigma_sensor > 0
    /\ nsteps >= 2 /\ bug = twin

\* C7: no step runs on a Bug built from a malformed configuration
\* (here: a non-positive n_cry).
C7_MalformedRejected == nsteps > 0 => bug.params.n_cry > 0

(***************************************************************************)
(* A stand-alone CompassSensor, constructed and read                       *)
(***************************************************************************)
ChannelCounts == {1, 3, N}

ReadHeadings == {0, PI \div 4, HALF_PI, -2 * SCALE, 4 * SCALE}

InitCompass ==
    /\ \E nch \in ChannelCounts, n \in (-1)..MaxNCry, sg \in {0, DefaultSigmaSensor} :
          \E late \in SUBSET TiedMolecules(n, nch) :
             sensor = ConstructSensor(nch, n, DefaultContrast, DefaultMeanYield, sg, late)
    /\ srng = NewRng(1)
    /\ reading = NoReading
    /\ bug = IdleBug
    /\ twin = IdleBug
    /\ nsteps = 0
    /\ last = NoCall
    /\ land = SmallLand
    /\ probe = NoProbe
    /\ ring = NoRing
    /\ integ = NoInteg
    /\ node = NoNode
    /\ res = NoRes

\* sensor.read(heading)
SensorRead(heading) ==
    /\ sensor.ok
    /\ reading.n < MaxReads
    /\ \E r \in {CompassRead(sensor.cs, heading, [srng EXCEPT !.log = << >>])} :
           /\ sensor' = [sensor EXCEPT !.cs = r.cs]
           /\ srng' = r.rng
           /\ reading' = [n |-> reading.n + 1, heading |-> heading, channels |-> r.channels]
    /\ UNCHANGED <<sceneVars, bugVars, fieldVars, benchVars>>

NextCompass == \E h \in ReadHeadings : SensorRead(h)

SpecCompass == InitCompass /\ [][NextCompass]_vars

\* The channels of the sensor that have no molecule assigned.
EmptyChannels == {c \in 0..(sensor.cs.nch - 1) : \A k \in 0..(sensor.cs.n_cry - 1) : sensor.cs.assignments[k] # c}

\* C8: whatever n_cry and the heading, read returns exactly 0 for every channel
\* without molecules (the quotient by a zero count is never taken).
C8_EmptyChannelZero ==
    reading.n > 0 => \A c \in EmptyChannels : reading.channels[c] = 0

C8_Witness ==
    /\ reading.n > 0
    /\ 0 < sensor.cs.n_cry /\ sensor.cs.n_cry < sensor.cs.nch
    /\ EmptyChannels # {}
    /\ \E c \in 0..(sensor.cs.nch - 1) : reading.channels[c] > 0

\* C9: after construction every molecule 0..n_cry-1 is assigned to exactly one
\* channel 0..C-1, each count is the number of molecules of its channel, the
\* counts sum to n_cry, and no read changes assignment or counts.
C9_Partition ==
    /\ [](sensor.ok =>
            LET cs == sensor.cs
                size(c) == Cardinality({k \in 0..(cs.n_cry - 1) : cs.assignments[k] = c})
            IN  /\ DOMAIN cs.assignments = 0..(cs.n_cry - 1)
                /\ \A k \in 0..(cs.n_cry - 1) : cs.assignments[k] \in 0..(cs.nch - 1)
                /\ DOMAIN cs.channel_counts = 0..(cs.nch - 1)
                /\ \A c \in 0..(cs.nch - 1) : cs.channel_counts[c] = size(c)
                /\ SumSeq([i \in 1..cs.nch |-> cs.channel_counts[i - 1]]) = cs.n_cry)
    /\ [][/\ sensor'.cs.assignments = sensor.cs.assignments
          /\ sensor'.cs.channel_counts = sensor.cs.channel_counts]_vars

C9_Witness ==
    /\ sensor.ok /\ reading.n > 0
    /\ sensor.cs.nch > 1 /\ sensor.cs.n_cry > sensor.cs.nch
    /\ \A c \in 0..(sensor.cs.nch - 1) : sensor.cs.channel_counts[c] > 0

(***************************************************************************)
(* A stand-alone Landscape, populated and queried                          *)
(***************************************************************************)
AnomalyChoices ==
    { GaussianAnomaly(2 * SCALE, 2 * SCALE, 5 * SCALE, SCALE \div 2),
      GaussianAnomaly(2 * SCALE, 2 * SCALE, 5 * SCALE, 0),
      DipoleAnomaly(2 * SCALE, 2 * SCALE, SCALE, SCALE \div 4),
      DipoleAnomaly(2 * SCALE, 2 * SCALE, SCALE, 0),
      FaultAnomaly(2 * SCALE, 2 * SCALE, 0, 3 * SCALE, SCALE \div 2),
      GradientAnomaly(SCALE \div 2, 0, 2 * SCALE, 2 * SCALE) }

\* Query points: the anomalies' centre, points inside their support, and points
\* three Gaussian radii, eight Dipole depths and four Fault widths away.
QueryPoints ==
    { <<2 * SCALE, 2 * SCALE>>, <<2500, 2 * SCALE>>, <<2500, 2500>>,
      <<2 * SCALE, 3500>>, <<0, 2 * SCALE>>, <<2 * SCALE, 0>>, <<0, 0>> }

InitField ==
    /\ \E decl \in {0, PI \div 4} :
          land = NewLandscape(4 * SCALE, 4 * SCALE, 50 * SCALE, decl, DefaultInclination)
    /\ probe = NoProbe
    /\ sensor = NoSensor
    /\ srng = NewRng(1)
    /\ reading = NoReading
    /\ bug = IdleBug
    /\ twin = IdleBug
    /\ nsteps = 0
    /\ last = NoCall
    /\ ring = NoRing
    /\ integ = NoInteg
    /\ node = NoNode
    /\ res = NoRes

\* land.add_anomaly(a)
AddAnomaly(a) ==
    /\ Len(land.anomalies) < MaxAnomalies
    /\ land' = add_anomaly(land, a)
    /\ probe' = NoProbe
    /\ UNCHANGED <<sceneVars, bugVars, sensorVars, benchVars>>

\* land.clear_anomalies()
ClearAnomalies ==
    /\ land.anomalies # << >>
    /\ land' = clear_anomalies(land)
    /\ probe' = NoProbe
    /\ UNCHANGED <<sceneVars, bugVars, sensorVars, benchVars>>

\* land.magnetic_direction(x, y); perts holds the perturbation of each anomaly, in list order
Query(x, y) ==
    /\ probe' = [x |-> x, y |-> y,
                 perts |-> [i \in 1..Len(land.anomalies) |->
                               [a |-> land.anomalies[i],
                                p |-> anomaly_perturbation(x, y, land.anomalies[i])]],
                 field |-> magnetic_direction(land, x, y),
                 bg |-> magnetic_direction(clear_anomalies(land), x, y)]
    /\ UNCHANGED <<sceneVars, land, bugVars, sensorVars, benchVars>>

NextField ==
    \/ \E a \in AnomalyChoices : AddAnomaly(a)
    \/ ClearAnomalies
    \/ \E q \in QueryPoints : Query(q[1], q[2])

SpecField == InitField /\ [][NextField]_vars

\* C10: a Gaussian anomaly (of any radius, zero included) and a Dipole anomaly
\* of zero depth, queried on their centre, give a zero perturbation vector
\* without dividing by zero.
C10_DegenerateRadius ==
    \A i \in 1..Len(probe.perts) :
        LET a == probe.perts[i].a
        IN  (/\ a.type \in {"Gaussian", "Dipole"}
             /\ probe.x = a.px /\ probe.y = a.py
             /\ (a.type = "Dipole" => a.depth = 0))
            => probe.perts[i].p.v = ZeroVec /\ ~probe.perts[i].p.dz

\* The strength, contrast or magnitude of anomaly a.
AnomalyStrength(a) ==
    CASE a.type \in {"Gaussian", "Dipole"} -> a.strength
      [] a.type = "Fault"    -> a.contrast
      [] a.type = "Gradient" -> a.magnitude

\* The query point (x, y) is far from anomaly a: three radii from a Gaussian,
\* eight depths from a Dipole, three widths from the line of a Fault, one unit
\* along the direction of a Gradient.
FarFrom(a, x, y) ==
    CASE a.type = "Gaussian" ->
            (x - a.px) * (x - a.px) + (y - a.py) * (y - a.py) >= 9 * a.radius * a.radius
      [] a.type = "Dipole" ->
            /\ (x - a.px) * (x - a.px) + (y - a.py) * (y - a.py) >= 64 * a.depth * a.depth
            /\ (x # a.px \/ y # a.py)
      [] a.type = "Fault" ->
            Abs(FMul(x - a.px, Sin(a.azimuth)) - FMul(y - a.py, Cos(a.azimuth))) >= 3 * a.width
      [] a.type = "Gradient" ->
            Abs(FMul(x - a.ref_x, Cos(a.direction)) + FMul(y - a.ref_y, Sin(a.direction))) >= SCALE

\* Field samples f and g agree within tol (intensity) and 0.01 rad (angles).
FieldNear(f, g, tol) ==
    /\ ~IsNaN(f.intensity) /\ ~IsNaN(f.direction) /\ ~IsNaN(f.inclination)
    /\ Abs(f.intensity - g.intensity) <= tol
    /\ Abs(f.direction - g.direction) <= 10
    /\ Abs(f.inclination - g.inclination) <= 10

\* C11 as stated: with one anomaly of any of the four types and non-zero
\* strength, a query far from the anomaly returns the field of the landscape
\* without anomalies (up to one hundredth of the strength).
C11_FarFieldBackground ==
    (/\ Len(probe.perts) = 1
     /\ AnomalyStrength(probe.perts[1].a) # 0
     /\ FarFrom(probe.perts[1].a, probe.x, probe.y))
    => FieldNear(probe.field, probe.bg, Abs(AnomalyStrength(probe.perts[1].a)) \div 100)

\* C11 amended: a Gaussian contributes exactly nothing at three radii or more
\* (alone, the field is exactly the background's); the components of a Dipole
\* at eight depths or more are below one hundredth of its strength (alone, the
\* field is near the background's).  Fault and Gradient are not covered.
C11_FarFieldGaussianDipole ==
    \A i \in 1..Len(probe.perts) :
        LET a == probe.perts[i].a
            v == probe.perts[i].p.v
        IN  FarFrom(a, probe.x, probe.y) =>
               /\ a.type = "Gaussian" =>
                      /\ v = ZeroVec
                      /\ Len(probe.perts) = 1 => probe.field = probe.bg
               /\ a.type = "Dipole" =>
                      /\ Abs(v.x) <= Abs(a.strength) \div 100
                      /\ Abs(v.y) <= Abs(a.strength) \div 100
                      /\ Abs(v.z) <= Abs(a.strength) \div 100
                      /\ Len(probe.perts) = 1 =>
                             FieldNear(probe.field, probe.bg, Abs(a.strength) \div 100)

C11_Witness ==
    /\ Len(probe.perts) = 1
    /\ probe.perts[1].a.type = "Gaussian" /\ probe.perts[1].a.radius > 0
    /\ (probe.x - probe.perts[1].a.px) * (probe.x - probe.perts[1].a.px)
          + (probe.y - probe.perts[1].a.py) * (probe.y - probe.perts[1].a.py)
          = 9 * probe.perts[1].a.radius * probe.perts[1].a.radius
    /\ probe.field = probe.bg

(***************************************************************************)
(* A stand-alone CPU4 and a leak-free CPU4 given the same updates          *)
(***************************************************************************)
MaxUpdates == 3

PathLeaks == {100, 3 * SCALE}

PathGains == {SCALE, 2 * SCALE}

PathHeadings == {0, PI}

PathSpeeds == {SCALE, 2 * SCALE}

PathDts == {100, 500}

InitPath ==
    /\ \E leak \in PathLeaks, gain \in PathGains :
          integ = [leaky |-> NewCPU4(leak, gain), plain |-> NewCPU4(0, gain),
                   n |-> 0, T |-> 0, north |-> TRUE, straight |-> TRUE, slow |-> TRUE,
                   heading |-> 0]
    /\ ring = NoRing
    /\ land = SmallLand
    /\ probe = NoProbe
    /\ sensor = NoSensor
    /\ srng = NewRng(1)
    /\ reading = NoReading
    /\ bug = IdleBug
    /\ twin = IdleBug
    /\ nsteps = 0
    /\ last = NoCall
    /\ node = NoNode
    /\ res = NoRes

\* update(heading, speed, dt) on both integrators
PathUpdate(heading, speed, dt) ==
    /\ integ.n < MaxUpdates
    /\ integ' = [leaky    |-> CPU4Update(integ.leaky, heading, speed, dt),
                 plain    |-> CPU4Update(integ.plain, heading, speed, dt),
                 n        |-> integ.n + 1,
                 T        |-> integ.T + dt,
                 north    |-> integ.north /\ heading = 0 /\ speed = SCALE,
                 straight |-> integ.straight /\ (integ.n > 0 => heading = integ.heading),
                 slow     |-> /\ integ.slow
                              /\ FMul(integ.leaky.leak, dt) >= 1
                              /\ FMul(integ.leaky.leak, dt) <= SCALE,
                 heading  |-> heading]
    /\ UNCHANGED <<sceneVars, ring, bugVars, sensorVars, fieldVars>>

NextPath == \E h \in PathHeadings, sp \in PathSpeeds, dt \in PathDts : PathUpdate(h, sp, dt)

SpecPath == InitPath /\ [][NextPath]_vars

\* C14 as stated: after walking north at unit speed and gain without leak for
\* a total time T, the home vector has distance T (within one percent) and
\* direction pi.
C14_NorthWalkDistanceT ==
    (integ.n > 0 /\ integ.north /\ integ.plain.gain = SCALE) =>
        /\ Abs(home_vector(integ.plain).distance - integ.T) <= integ.T \div 100 + 5
        /\ Abs(Abs(home_vector(integ.plain).direction) - PI) <= 10

\* C14 amended: the distance is 2 T (N/4 times T for the N = 8 units, the
\* decode is not normalised), within one percent, and the direction is pi.
C14_NorthWalkDistance2T ==
    (integ.n > 0 /\ integ.north /\ integ.plain.gain = SCALE) =>
        /\ Abs(home_vector(integ.plain).distance - 2 * integ.T) <= (2 * integ.T) \div 100 + 5
        /\ Abs(Abs(home_vector(integ.plain).direction) - PI) <= 10

C14_Witness ==
    /\ integ.n >= 2 /\ integ.north /\ integ.plain.gain = SCALE /\ integ.T >= SCALE
    /\ home_vector(integ.plain).distance > integ.T + integ.T \div 2

\* C15 as stated: for any leak > 0 and any sequence of updates with positive
\* speed, the leaky distance is strictly smaller than the leak-free distance.
C15_LeakyStrictlySmaller ==
    (integ.n > 0 /\ integ.leaky.leak > 0) =>
        home_vector(integ.leaky).distance < home_vector(integ.plain).distance

\* C15 amended: for leak > 0, after two or more updates that all have the same
\* heading, positive speed and 0.001 <= leak * dt <= 1, the leaky distance is strictly
\* smaller than the leak-free distance.
C15_LeakySmallerStraight ==
    (integ.n >= 2 /\ integ.leaky.leak > 0 /\ integ.straight /\ integ.slow) =>
        home_vector(integ.leaky).distance < home_vector(integ.plain).distance

C15_Witness ==
    /\ integ.n >= 2 /\ integ.leaky.leak > 0 /\ integ.straight /\ integ.slow
    /\ integ.heading = PI
    /\ 0 < home_vector(integ.leaky).distance
    /\ home_vector(integ.leaky).distance < home_vector(integ.plain).distance

\* C13: after every step the true heading, and the heading of the history
\* entry the step appended, lie in [0, 2 pi).
C13_HeadingWrapped ==
    /\ \A i \in 2..Len(bug.history) :
          0 <= bug.history[i].heading /\ bug.history[i].heading < TWO_PI
    /\ Len(bug.history) >= 2 =>
          /\ bug.heading = bug.history[Len(bug.history)].heading
          /\ 0 <= bug.heading /\ bug.heading < TWO_PI

\* A step took the heading below zero and wrapped it to just under 2 pi.
C13_Witness ==
    /\ Len(bug.history) >= 2
    /\ bug.history[Len(bug.history) - 1].heading < HALF_PI \div 4
    /\ bug.heading > TWO_PI - HALF_PI \div 4

\* The last call executed exactly one step of bug, so that last.before is the
\* Bug as that step found it.
OneStep == last.op # "none" /\ last.executed = 1

\* The field direction at the position the step started from.
FieldAtStart == magnetic_direction(last.ls, last.before.x, last.before.y).direction

\* The field direction at the position the step moved to.
FieldAtEnd == magnetic_direction(last.ls, bug.x, bug.y).direction

\* The compass reading the step took at its start.
ReadAtStart ==
    CompassRead(last.before.compass, last.before.heading - FieldAtStart,
                [last.before.rng EXCEPT !.log = << >>])

\* The steering command that follows from a heading estimate est.
CommandFrom(est) == FMul(last.before.kappa, Sin(last.before.goal_heading - est))

\* The estimator after a step driven by the reading at the start and command cmd.
EstimatorAfter(cmd) ==
    RingStep(last.before.attractor, last.dt, TRUE, ReadAtStart.channels, cmd, ReadAtStart.rng).att

\* The path integrator after an update with heading h.
IntegratorAfter(h) == CPU4Update(last.before.cpu4, h, last.before.speed, last.dt)

\* C19: the command that drives the estimator and the true heading comes from
\* the estimator heading before the update plus the field direction; the path
\* integrator is updated with the estimator heading after the update, without
\* the field direction.
C19_SteerBeforeIntegrateAfter ==
    OneStep =>
       /\ bug.attractor =
             EstimatorAfter(CommandFrom(RingHeading(last.before.attractor) + FieldAtStart))
       /\ last.before.sigma_theta = 0 =>
             bug.heading =
                SteerHeading(last.before.heading,
                             CommandFrom(RingHeading(last.before.attractor) + FieldAtStart),
                             last.dt, 0)
       /\ bug.cpu4 = IntegratorAfter(RingHeading(bug.attractor))

\* A step in a deviated field that changed the estimator heading, where the
\* other readings of the two headings would have given other results.
C19_Witness ==
    /\ OneStep /\ FieldAtStart # 0 /\ last.before.sigma_theta = 0
    /\ RingHeading(last.before.attractor) # RingHeading(bug.attractor)
    /\ bug.attractor # EstimatorAfter(CommandFrom(RingHeading(last.before.attractor)))
    /\ bug.cpu4 # IntegratorAfter(RingHeading(last.before.attractor))
    /\ bug.cpu4 # IntegratorAfter(RingHeading(bug.attractor) + FieldAtStart)

\* The estimated_heading of the newest history entry.
NewestEstimate == bug.history[Len(bug.history)].estimated_heading

\* C20 as stated: the entry a step appends holds the estimate the steering
\* command was computed from.
C20_RecordsSteeringEstimate ==
    OneStep => NewestEstimate = RingHeading(last.before.attractor) + FieldAtStart

\* C20, amended: the entry holds the estimator heading after the update plus
\* the field direction queried at the start of the step.
C20_RecordsUpdatedEstimate ==
    OneStep => NewestEstimate = RingHeading(bug.attractor) + FieldAtStart

C20_Witness ==
    /\ OneStep /\ FieldAtStart # 0 /\ FieldAtEnd # FieldAtStart
    /\ RingHeading(last.before.attractor) # RingHeading(bug.attractor)
    /\ NewestEstimate = RingHeading(bug.attractor) + FieldAtStart

\* The newest history entry.
NewestEntry == bug.history[Len(bug.history)]

\* C18: one step queries the field where it starts, reads the compass, derives
\* the command, steps the estimator once with that reading and command, updates
\* the path integrator once with the stepped estimator, turns the true heading
\* once, moves once along the turned heading, appends one entry holding the
\* moved position, and tests the moved position against the bounds.
C18_StepOrder ==
    OneStep =>
       /\ bug.compass = ReadAtStart.cs
       /\ bug.attractor = EstimatorAfter(CommandFrom(SteerEstimate(last.before.attractor,
                                                                   FieldAtStart)))
       /\ bug.cpu4 = CPU4Update(last.before.cpu4, RingHeading(bug.attractor), bug.speed, last.dt)
       /\ last.before.sigma_theta = 0 =>
             bug.heading =
                SteerHeading(last.before.heading,
                             CommandFrom(SteerEstimate(last.before.attractor, FieldAtStart)),
                             last.dt, 0)
       /\ last.before.sigma_xy = 0 =>
             /\ bug.x = last.before.x + FMul(FMul(bug.speed, Cos(bug.heading)), last.dt)
             /\ bug.y = last.before.y + FMul(FMul(bug.speed, Sin(bug.heading)), last.dt)
       /\ bug.history = Append(last.before.history, NewestEntry)
       /\ NewestEntry.x = bug.x /\ NewestEntry.y = bug.y /\ NewestEntry.heading = bug.heading
       /\ NewestEntry.bump_amplitude = bump_amplitude(bug.attractor)
       /\ last.ret = in_bounds(last.ls, bug.x, bug.y)

\* A noise-free step that turned the heading and moved along the turned
\* heading and not along the old one.
C18_Witness ==
    /\ OneStep /\ last.before.sigma_theta = 0 /\ last.before.sigma_xy = 0
    /\ bug.heading # last.before.heading
    /\ bug.x # last.before.x + FMul(FMul(bug.speed, Cos(last.before.heading)), last.dt)
    /\ bug.attractor # last.before.attractor /\ bug.cpu4 # last.before.cpu4
    /\ in_bounds(last.ls, last.before.x, last.before.y)
    /\ Len(bug.history) = Len(last.before.history) + 1

(***************************************************************************)
(* A stand-alone RingAttractor, reset and stepped                          *)
(***************************************************************************)
MaxFreeSteps == 2

MaxSteadySteps == 40

\* Arguments of reset: headings on and between the units; negative for a random bump.
ResetHeadings == {0, 50, 500, PI \div 8, PI, -SCALE}

NoInput == [has |-> FALSE, channels |-> [i \in Units |-> 0]]

\* The noise-free reading of a compass sensor at heading h, as compass_input.
SensorInput(h) ==
    [has |-> TRUE,
     channels |-> CompassRead(NewCompass(N, MaxNCry, DefaultContrast, DefaultMeanYield, 0, {}),
                              h, NewRng(1)).channels]

\* A compass_input with a single large entry.
SpikeInput == [has |-> TRUE, channels |-> [i \in Units |-> IF i = 1 THEN 5 * SCALE ELSE 0]]

\* A compass_input whose entries are all equal.
EqualInput == [has |-> TRUE, channels |-> [i \in Units |-> SCALE \div 2]]

\* w_inh: the default, none (every rate saturates), and one that silences every unit.
InhibitionWeights == {DefaultRaWInh, 0, 20 * SCALE}

\* Calls of step: dt, compass_input, angular_velocity.
RingCalls ==
    { [dt |-> 10, inp |-> NoInput, omega |-> 0],
      [dt |-> 20, inp |-> NoInput, omega |-> 0],
      [dt |-> 50, inp |-> NoInput, omega |-> 0],
      [dt |-> 20, inp |-> NoInput, omega |-> 100],
      [dt |-> 10, inp |-> NoInput, omega |-> SCALE \div 2],
      [dt |-> 20, inp |-> NoInput, omega |-> -SCALE],
      [dt |-> 20, inp |-> NoInput, omega |-> 5 * SCALE],
      [dt |-> 10, inp |-> SensorInput(0), omega |-> 0],
      [dt |-> 20, inp |-> SensorInput(HALF_PI), omega |-> SCALE],
      [dt |-> 10, inp |-> SpikeInput, omega |-> -SCALE],
      [dt |-> 10, inp |-> EqualInput, omega |-> 0],
      [dt |-> 100, inp |-> SpikeInput, omega |-> 5 * SCALE] }

InitRing ==
    /\ \E h \in ResetHeadings, nz \in {0, DefaultRaNoiseSigma}, w_inh \in InhibitionWeights :
          /\ nz > 0 => h \in {0, -SCALE}
          /\ w_inh # DefaultRaWInh => (nz = 0 /\ h = PI)
          /\ \E ra \in {NewRingAttractor(DefaultRaTau, DefaultRaWExc, w_inh,
                                         DefaultRaGMag, DefaultRaGOmega, 0, SCALE, nz,
                                         NewRng(FixedSeed))} :
                \E rst \in {RingReset(ra.att, h, ra.rng)} :
                   ring = [att |-> rst.att, rng |-> rst.rng, h0 |-> h, n |-> 0,
                           steady |-> TRUE, dt |-> 0, omega |-> 0, input |-> FALSE,
                           prev |-> RingHeading(rst.att),
                           err |-> [valid |-> FALSE, error |-> 0],
                           imag |-> [i \in Units |-> 0],
                           decoded |-> [done |-> FALSE, h |-> 0]]
    /\ integ = NoInteg
    /\ land = SmallLand
    /\ probe = NoProbe
    /\ sensor = NoSensor
    /\ srng = NewRng(1)
    /\ reading = NoReading
    /\ bug = IdleBug
    /\ twin = IdleBug
    /\ nsteps = 0
    /\ last = NoCall
    /\ node = NoNode
    /\ res = NoRes

\* ring.step(dt, compass_input, angular_velocity); steady: every step so far had
\* no compass input and the same dt and angular velocity.  Beyond MaxFreeSteps
\* only noise-free steady sequences are continued.
EstimatorStep(dt, inp, omega) ==
    /\ \/ ring.n < MaxFreeSteps
       \/ /\ ring.n < MaxSteadySteps
          /\ ring.steady /\ ~inp.has /\ dt = ring.dt /\ omega = ring.omega
          /\ ring.att.noise_sigma = 0
    /\ \E rs \in {RingStep(ring.att, dt, inp.has, inp.channels, omega,
                            [ring.rng EXCEPT !.log = << >>])} :
          ring' = [att |-> rs.att, rng |-> rs.rng, h0 |-> ring.h0, n |-> ring.n + 1,
                   steady |-> /\ ~inp.has
                              /\ ring.n > 0 => (ring.steady /\ dt = ring.dt /\ omega = ring.omega),
                   dt |-> dt, omega |-> omega, input |-> inp.has,
                   prev |-> RingHeading(ring.att),
                   err |-> IF inp.has THEN CompassError(ring.att, inp.channels)
                           ELSE [valid |-> FALSE, error |-> 0],
                   imag |-> IMag(ring.att, inp.has, inp.channels),
                   decoded |-> [done |-> FALSE, h |-> 0]]
    /\ UNCHANGED <<sceneVars, integ, bugVars, sensorVars, fieldVars>>

\* ring.heading(), called once on the state as it is
HeadingRead ==
    /\ ~ring.decoded.done
    /\ ring' = [ring EXCEPT !.decoded = [done |-> TRUE, h |-> RingHeading(ring.att)]]
    /\ UNCHANGED <<sceneVars, integ, bugVars, sensorVars, fieldVars>>

NextRing ==
    \/ \E c \in RingCalls : EstimatorStep(c.dt, c.inp, c.omega)
    \/ HeadingRead

SpecRing == InitRing /\ [][NextRing]_vars

\* C12: after every step, whatever the compass input, the angular velocity,
\* the noise and dt, every rate lies in [0, r_max].
C12_RatesClamped ==
    ring.n > 0 => \A i \in Units : 0 <= ring.att.r[i] /\ ring.att.r[i] <= ring.att.r_max

C12_Witness ==
    /\ ring.n > 0 /\ ring.input /\ ring.omega # 0 /\ ring.att.noise_sigma > 0
    /\ \E i \in Units : ring.att.r[i] = 0
    /\ \E i \in Units : ring.att.r[i] = ring.att.r_max

\* The deviation of the decoded heading from the heading of the reset.
HoldDeviation == Abs(WrapPi(RingHeading(ring.att) - ring.h0))

\* The signed change of the decoded heading in the last step.
HeadingChange == WrapPi(RingHeading(ring.att) - ring.prev)

\* The default estimator, and every step since the reset at h0 >= 0 had no
\* compass input, no angular velocity, no noise and a dt of at most 0.02.
Holding ==
    /\ ring.n > 0 /\ ring.steady /\ ring.omega = 0
    /\ ring.att.noise_sigma = 0 /\ ring.h0 >= 0
    /\ ring.att.w_inh = DefaultRaWInh /\ ring.dt <= 20

\* The widest tolerance the tests allow a held heading: 0.3 rad.
HoldTolerance == 300

\* Half the distance between the preferred directions of adjacent units, plus
\* the rounding of the decode.
HalfSpacing == PI \div N + 10

\* C16 as stated: a held heading stays within a small tolerance of the reset heading.
C16_HoldWithinTolerance == Holding => HoldDeviation <= HoldTolerance

\* C16, amended: a held heading stays within half the unit spacing of the
\* reset heading.
C16_HoldWithinHalfSpacing == Holding => HoldDeviation <= HalfSpacing

C16_Witness ==
    /\ Holding /\ ring.n = MaxSteadySteps /\ ring.h0 = 50
    /\ HoldDeviation > HoldTolerance /\ HoldDeviation <= HalfSpacing

\* The default estimator, and every step since the reset had no compass input,
\* no noise, and the same non-zero angular velocity and dt.
Turning ==
    /\ ring.n > 0 /\ ring.steady /\ ring.omega # 0 /\ ring.att.noise_sigma = 0
    /\ ring.att.w_inh = DefaultRaWInh

\* The last step did not move the heading against the sign of omega.
WithOmega == IF ring.omega > 0 THEN HeadingChange >= 0 ELSE HeadingChange <= 0

\* The smallest angular speed, 0.5 rad/s, from which the velocity input
\* outweighs the pull towards the nearest resting position.
MinTurnRate == SCALE \div 2

\* C17 as stated: under a constant non-zero angular velocity the heading never
\* moves against the sign of the velocity.
C17_MonotoneAnyRate == Turning => WithOmega

\* C17, amended: the same for angular speeds of at least 0.5 rad/s.
C17_MonotoneFastTurn == (Turning /\ Abs(ring.omega) >= MinTurnRate) => WithOmega

C17_Witness ==
    /\ Turning /\ ring.omega = -SCALE /\ ring.n = MaxSteadySteps
    /\ HeadingChange < 0 /\ Abs(WrapPi(RingHeading(ring.att) - ring.h0)) > HALF_PI

(***************************************************************************)
(* Further properties of the Bug                                           *)
(***************************************************************************)
\* C21: the position update of a step moves along the heading the Bug had at
\* the start of the step (x' = x + v cos(theta) dt, y' = y + v sin(theta) dt).
C21_MovesAlongStartHeading ==
    (OneStep /\ last.before.sigma_xy = 0) =>
        /\ bug.x = last.before.x
                     + FMul(FMul(bug.speed, Cos(last.before.heading)), last.dt)
        /\ bug.y = last.before.y
                     + FMul(FMul(bug.speed, Sin(last.before.heading)), last.dt)

\* The draws of Bug::Bug for a configured initial heading heading0.
ConstructionDraws(heading0) ==
    (IF heading0 < 0 THEN << <<"heading0", 0>> >> ELSE << >>) \o << <<"init_bump", 0>> >>

\* C25: before the first step the stream has been drawn from once for the
\* initial heading, only when heading0 is negative, and then once for the bump
\* index of the estimator's constructor, and by nothing else; the bump the
\* estimator holds is the one reset places at the true heading.
C25_ConstructionDraws ==
    nsteps = 0 =>
       /\ bug.rng.log = ConstructionDraws(bug.params.heading0)
       /\ bug.attractor.r = RingReset(bug.attractor, bug.heading, bug.rng).att.r

C25_Witness ==
    /\ nsteps = 0 /\ bug.params.heading0 < 0 /\ bug.params.n_cry > 0
    /\ Len(bug.rng.log) = 2
    /\ bug.attractor.r # init_bump(bug.rng).r

\* C26: every heading in the history, entry 0 included, lies in [0, 2 pi).
C26_AllHeadingsWrapped ==
    \A i \in 1..Len(bug.history) :
        0 <= bug.history[i].heading /\ bug.history[i].heading < TWO_PI

\* C27: a run whose step count floor(duration / dt) is zero or negative returns
\* true and leaves the whole Bug (position, heading, estimator, integrator,
\* engine and history) as it was, wherever the Bug stands.
C27_EmptyRunChangesNothing ==
    (last.op = "run" /\ last.duration \div last.dt <= 0) =>
        /\ last.ret
        /\ last.executed = 0
        /\ bug = last.before

\* An empty run, of negative duration, on a Bug that stands outside the landscape.
C27_Witness ==
    /\ last.op = "run" /\ last.duration \div last.dt < 0 /\ last.ret
    /\ ~in_bounds(last.ls, bug.x, bug.y)
    /\ Len(bug.history) >= 2
    /\ bug = last.before

\* The call that leads to the next state appended k entries to the history, the
\* last of them the pose the Bug now has, and moved the Bug and its integrator.
Performed(k) ==
    /\ Len(bug'.history) = Len(bug.history) + k
    /\ nsteps' = nsteps + k
    /\ SubSeq(bug'.history, 1, Len(bug.history)) = bug.history
    /\ bug'.history[Len(bug'.history)].x = bug'.x
    /\ bug'.history[Len(bug'.history)].y = bug'.y
    /\ <<bug'.x, bug'.y>> # <<bug.x, bug.y>>
    /\ bug'.cpu4 # bug.cpu4

\* C28: out of bounds is not latched: once some step has returned false, every
\* later step is still performed in full, appends its entry and returns true
\* exactly when the position it reached is inside the landscape it was given,
\* and every later run still performs its steps until one of them returns false.
C28_NotLatched ==
    [][last.fell =>
         /\ last'.op = "step" =>
               /\ Performed(1)
               /\ last'.ret = in_bounds(last'.ls, bug'.x, bug'.y)
         /\ (last'.op = "run" /\ RunSteps(last'.duration, last'.dt) > 0) =>
               /\ last'.executed >= 1
               /\ Performed(last'.executed)
               /\ last'.ret = in_bounds(last'.ls, bug'.x, bug'.y)
               /\ last'.ret => last'.executed = RunSteps(last'.duration, last'.dt)]_vars

\* A step returned false, and a later step reached a position inside the
\* landscape it was given and returned true.
C28_Witness ==
    /\ last.op = "step" /\ last.ret /\ last.fell
    /\ Len(bug.history) = Len(last.before.history) + 1
    /\ in_bounds(last.ls, bug.x, bug.y)

(***************************************************************************)
(* Further properties of the CompassSensor                                 *)
(***************************************************************************)
\* The exact circular distance of molecule k of the sensor from channel centre c.
UnitDist(k, c) == CircDist(k, sensor.cs.n_cry, c, sensor.cs.nch)

\* C22: every molecule is assigned to a channel at minimal circular distance,
\* and of several channels at that distance to the one with the lowest index.
C22_NearestLowestIndex ==
    sensor.ok =>
       \A k \in 0..(sensor.cs.n_cry - 1) :
          \A c \in 0..(sensor.cs.nch - 1) :
             /\ UnitDist(k, sensor.cs.assignments[k]) <= UnitDist(k, c)
             /\ UnitDist(k, c) = UnitDist(k, sensor.cs.assignments[k])
                   => sensor.cs.assignments[k] <= c

(***************************************************************************)
(* Further properties of the RingAttractor                                 *)
(***************************************************************************)
\* The resultant of the population vector, as heading() forms it.
ResultantRe == SumOver([i \in Units |-> FMul(ring.att.r[i], Cos(Theta(i)))], 0)

ResultantIm == SumOver([i \in Units |-> FMul(ring.att.r[i], Sin(Theta(i)))], 0)

\* C23: the compass term of the last step is zero for every unit when no
\* channels were given or the centred double-angle vector was within epsilon;
\* otherwise the error it is scaled by lies in [-pi/2, pi/2].
C23_CompassTermGuarded ==
    ring.n > 0 =>
       /\ (~ring.input \/ ~ring.err.valid) => \A i \in Units : ring.imag[i] = 0
       /\ (ring.input /\ ring.err.valid) =>
             -HALF_PI <= ring.err.error /\ ring.err.error <= HALF_PI

\* A step was given equal channels while the bump had a gradient.
C23_Witness ==
    /\ ring.n > 0 /\ ring.input /\ ~ring.err.valid
    /\ \A i \in Units : ring.imag[i] = 0
    /\ bump_amplitude(ring.att) > 0

\* The resultant of the population vector is below the epsilon of heading().
FlatState == Hypot(ResultantRe, ResultantIm) < EpsZ

\* C24: heading() returns exactly 0 on a state whose resultant is below
\* epsilon and an angle in [0, 2 pi) on every other state, and the call leaves
\* the rates and parameters of the estimator as they were.
C24_HeadingDecode ==
    /\ [](ring.decoded.done =>
            /\ FlatState => ring.decoded.h = 0
            /\ 0 <= ring.decoded.h /\ ring.decoded.h < TWO_PI)
    /\ [][(~ring.decoded.done /\ ring'.decoded.done) =>
             (ring'.att = ring.att /\ ring'.rng = ring.rng)]_vars

\* heading() was called on an estimator whose rates had all died out.
C24_Witness ==
    /\ ring.decoded.done /\ ring.n > 0 /\ FlatState /\ ring.decoded.h = 0
    /\ \A i \in Units : ring.att.r[i] = 0

(***************************************************************************)
(* The LandscapeResource on its own                                        *)
(***************************************************************************)
B0Values == {50 * SCALE, 30 * SCALE}

Declinations == {0, PI \div 4}

InclinationsDeg == {65, 60}

SimWidths == {1000 * SCALE, 4 * SCALE}

\* The default height, and one just above the Bug's default starting point y0 = 100.
SimHeights == {1000 * SCALE, 100150}

ResourceAnomalies ==
    { GaussianAnomaly(2 * SCALE, 2 * SCALE, 5 * SCALE, SCALE \div 2),
      GradientAnomaly(SCALE \div 2, 0, 2 * SCALE, 2 * SCALE) }

ResourceQueryPoints == { <<2500, 2 * SCALE>>, <<0, 0>> }

ReplacingCalls ==
    {"set_B0", "set_declination", "set_inclination_deg", "set_sim_width", "set_sim_height",
     "rebuild"}

InitResource ==
    /\ res = NoRes
    /\ node = NoNode
    /\ land = SmallLand
    /\ probe = NoProbe
    /\ sensor = NoSensor
    /\ srng = NewRng(1)
    /\ reading = NoReading
    /\ bug = IdleBug
    /\ twin = IdleBug
    /\ nsteps = 0
    /\ last = NoCall
    /\ ring = NoRing
    /\ integ = NoInteg

\* A call that left the resource as r2
Replaced(r2, call) ==
    /\ res' = [obj |-> r2, op |-> call, dropped |-> Len(res.obj.landscape.anomalies)]
    /\ probe' = NoProbe
    /\ UNCHANGED <<node, land, bugVars, sensorVars, benchVars>>

\* res.set_B0(v)
SetB0(v) == Replaced(set_B0(res.obj, v), "set_B0")

\* res.set_declination(v)
SetDeclination(v) == Replaced(set_declination(res.obj, v), "set_declination")

\* res.set_inclination_deg(v)
SetInclinationDeg(v) == Replaced(set_inclination_deg(res.obj, v), "set_inclination_deg")

\* res.set_sim_width(v)
SetSimWidth(v) == Replaced(set_sim_width(res.obj, v), "set_sim_width")

\* res.set_sim_height(v)
SetSimHeight(v) == Replaced(set_sim_height(res.obj, v), "set_sim_height")

\* res.rebuild()
Rebuild == Replaced(rebuild(res.obj), "rebuild")

\* res.get_landscape().add_anomaly(a)
ResourceAddAnomaly(a) ==
    /\ Len(res.obj.landscape.anomalies) < MaxAnomalies
    /\ res' = [res EXCEPT !.obj.landscape = add_anomaly(@, a), !.op = "add_anomaly"]
    /\ probe' = NoProbe
    /\ UNCHANGED <<node, land, bugVars, sensorVars, benchVars>>

\* res.get_landscape().magnetic_direction(x, y)
ResourceQuery(x, y) ==
    /\ probe' = [x |-> x, y |-> y,
                 perts |-> [i \in 1..Len(res.obj.landscape.anomalies) |->
                               [a |-> res.obj.landscape.anomalies[i],
                                p |-> anomaly_perturbation(x, y, res.obj.landscape.anomalies[i])]],
                 field |-> magnetic_direction(res.obj.landscape, x, y),
                 bg |-> magnetic_direction(clear_anomalies(res.obj.landscape), x, y)]
    /\ UNCHANGED <<sceneVars, land, bugVars, sensorVars, benchVars>>

NextResource ==
    \/ \E v \in B0Values : SetB0(v)
    \/ \E v \in Declinations : SetDeclination(v)
    \/ \E v \in InclinationsDeg : SetInclinationDeg(v)
    \/ \E v \in SimWidths : SetSimWidth(v)
    \/ \E v \in SimHeights : SetSimHeight(v)
    \/ Rebuild
    \/ \E a \in ResourceAnomalies : ResourceAddAnomaly(a)
    \/ \E q \in ResourceQueryPoints : ResourceQuery(q[1], q[2])

SpecResource == InitResource /\ [][NextResource]_vars

\* The field of a Landscape without anomalies built from the properties of r.
BackgroundField(r) ==
    LET incl == DegToRad(r.inclination_deg)
        bx   == FMul(FMul(r.B0, Cos(incl)), Cos(r.declination))
        by   == FMul(FMul(r.B0, Cos(incl)), Sin(r.declination))
    IN  [direction |-> Atan2(by, bx), intensity |-> Hypot(bx, by),
         inclination |-> Atan2(FMul(r.B0, Sin(incl)), Hypot(bx, by))]

\* C30: after a property setter or rebuild() the resource wraps a fresh
\* Landscape of the current properties: it holds no anomaly, whatever was added
\* before, and a query on it returns the background field of those properties.
C30_SetterReplacesLandscape ==
    res.op \in ReplacingCalls =>
        /\ res.obj.landscape.anomalies = << >>
        /\ res.obj.landscape.width = res.obj.sim_width
        /\ res.obj.landscape.height = res.obj.sim_height
        /\ res.obj.landscape.B0 = res.obj.B0
        /\ res.obj.landscape.declination = res.obj.declination
        /\ res.obj.landscape.inclination = DegToRad(res.obj.inclination_deg)
        /\ probe # NoProbe =>
              /\ probe.perts = << >>
              /\ probe.field = BackgroundField(res.obj)

\* A setter was called on a resource whose Landscape held two anomalies, and the
\* field was then queried at a point where the first of them had changed it.
C30_Witness ==
    /\ res.op = "set_B0" /\ res.dropped = 2 /\ res.obj.B0 = 30 * SCALE
    /\ probe # NoProbe /\ probe.x = 2500
    /\ probe.field = BackgroundField(res.obj)

(***************************************************************************)
(* The BugNode of a scene                                                  *)
(***************************************************************************)
\* Seeds whose first draw heads the Bug north (1.574) and west (3.224)
NodeSeeds == {20, 42}

StepsPerFrameValues == {-1, 0, 1, 3}

\* The delta of a physics tick
Deltas == {30}

InitNode ==
    /\ \E sd \in NodeSeeds : node = FreshNode(sd, 10 * SCALE)
    /\ res = NoRes
    /\ land = SmallLand
    /\ probe = NoProbe
    /\ sensor = NoSensor
    /\ srng = NewRng(1)
    /\ reading = NoReading
    /\ bug = IdleBug
    /\ twin = IdleBug
    /\ nsteps = 0
    /\ last = NoCall
    /\ ring = NoRing
    /\ integ = NoInteg

\* A call that left the node as n2 after k steps of its Bug
Called(n2, call, k, halted2, readied2) ==
    /\ node' = [obj |-> n2, op |-> call,
                pre |-> IF call \in {"tick", "start"} THEN node.obj ELSE n2,
                ls |-> IF call = "tick" THEN res.obj.landscape
                       ELSE NewLandscapeResource.landscape,
                executed |-> k, halted |-> halted2,
                was_halted |-> (call \in {"tick", "start"} /\ node.halted),
                readied |-> readied2]
    /\ UNCHANGED <<res, fieldVars, bugVars, sensorVars, benchVars>>

\* node._ready(), once, when the node enters the scene tree
Ready ==
    /\ ~node.readied
    /\ \E e \in EntropySeeds : Called(rebuild_bug(node.obj, e), "ready", 0, node.halted, TRUE)

\* node.start()
Start == \E e \in EntropySeeds : Called(start(node.obj, e), "start", 0, FALSE, node.readied)

\* node.stop()
Stop == Called(stop(node.obj), "stop", 0, node.halted, node.readied)

\* node.set_steps_per_frame(k)
SetStepsPerFrame(k) ==
    Called(set_steps_per_frame(node.obj, k), "set_steps_per_frame", 0, node.halted,
           node.readied)

\* node.set_landscape_resource(res), or (null)
SetLandscapeResource(p_res) ==
    Called(set_landscape_resource(node.obj, p_res), "set_landscape_resource", 0,
           node.halted, node.readied)

\* node._physics_process(delta)
PhysicsProcess(delta) ==
    /\ Processing(node.obj) =>
          Len(node.obj.bug.history) + Max(0, node.obj.steps_per_frame) <= MaxNodeHistory
    /\ \E s \in {physics_process(node.obj, res.obj, delta)} :
          Called(s.node, "tick", s.executed,
                 node.halted \/ (s.executed > 0 /\ ~s.node.running), node.readied)

NextNode ==
    \/ Ready
    \/ Start
    \/ Stop
    \/ \E k \in StepsPerFrameValues : SetStepsPerFrame(k)
    \/ \E b \in BOOLEAN : SetLandscapeResource(b)
    \/ \E d \in Deltas : PhysicsProcess(d)
    \/ \E v \in SimHeights : SetSimHeight(v)

SpecNode == InitNode /\ [][NextNode]_vars

\* Entry i of the history of the node's Bug lies in the Landscape of the last call.
NodeEntryInside(i) ==
    in_bounds(node.ls, node.obj.bug.history[i].x, node.obj.bug.history[i].y)

\* C29: a physics tick steps the Bug only if the node is running, has a Bug and
\* has a landscape resource; it runs at most steps_per_frame steps, and none if
\* that number is not positive; a step that returns false ends the tick's steps
\* and clears running; from then on no tick steps the Bug until start() is
\* called, and start() on a node that has a Bug keeps that Bug.
C29_NodeStepping ==
    /\ node.op = "tick" =>
          LET k  == node.executed
              h0 == Len(node.pre.bug.history)
              h1 == Len(node.obj.bug.history)
          IN  /\ h1 = h0 + k
              /\ SubSeq(node.obj.bug.history, 1, h0) = node.pre.bug.history
              /\ k > 0 => (node.pre.running /\ node.pre.has_bug /\ node.pre.landscape_res)
              /\ node.pre.steps_per_frame >= 0 => k <= node.pre.steps_per_frame
              /\ node.pre.steps_per_frame <= 0 => k = 0
              /\ \A i \in (h0 + 1)..(h1 - 1) : NodeEntryInside(i)
              /\ (k > 0 /\ ~NodeEntryInside(h1)) => (~node.obj.running /\ node.halted)
              /\ (k > 0 /\ NodeEntryInside(h1)) =>
                     (node.obj.running /\ k = node.pre.steps_per_frame)
              /\ node.was_halted => k = 0
    /\ (node.op = "start" /\ node.pre.has_bug) =>
          (node.obj.bug = node.pre.bug /\ node.obj.running)

\* A tick of three steps per frame whose second step left the landscape: the
\* third step was not run and the node stopped.
C29_Witness ==
    /\ node.op = "tick" /\ node.pre.steps_per_frame = 3 /\ node.executed = 2
    /\ ~node.obj.running /\ node.halted
    /\ ~NodeEntryInside(Len(node.obj.bug.history))

====
